---- MODULE Spec2Model ----
(***************************************************************************)
(* Model of the starknet-founders-bot: the in-memory RateLimiter           *)
(* (src/bot/utils.py), the handle_message handler that consults it         *)
(* (src/bot/handlers.py), the transport chunker split_into_chunks and the  *)
(* escaper escape_md_v2 (src/bot/utils.py) and the response formatter      *)
(* AIAgent.format_response (src/bot/agents.py).                            *)
(*                                                                         *)
(* Instants are whole seconds read from the wall clock (datetime.now());   *)
(* the clock is modelled as non-decreasing.  A timedelta is a number of    *)
(* seconds.  Strings of the chunker are sequences of one-character         *)
(* strings.                                                                *)
(***************************************************************************)
EXTENDS Integers, Sequences, FiniteSets, TLC

VARIABLES
    max_requests,   \* RateLimiter.max_requests
    window,         \* RateLimiter.window, in seconds
    requests,       \* RateLimiter.requests: user id string -> list of instants
    now,            \* the wall clock read by datetime.now()
    call,           \* the last is_allowed call: its input, the list it found, its outcome
    log,            \* per user key, every is_allowed call so far: instant and outcome
    pc,             \* per handle_message task: the await it is suspended at
    task_user,      \* per task: update.effective_user.id (0 before the update arrives)
    task_rl,        \* per task: what is_allowed answered, and the instant it read
    effects,        \* per task: the calls on the transport, the store and the model it made
    text,           \* split_into_chunks: the argument text
    limit,          \* split_into_chunks: the argument limit
    remaining,      \* split_into_chunks: the local remaining
    chunks,         \* split_into_chunks: the local chunks
    cstate,         \* split_into_chunks: "loop" inside the while, "done" once returned
    etext,          \* escape_md_v2: the argument text
    eresult,        \* escape_md_v2: the string returned
    estate,         \* escape_md_v2: "call" when called, "done" once returned
    raw,            \* format_response: the argument content
    agent_type,     \* format_response: the argument agent_type
    content,        \* format_response: the local content (text from line 339 on)
    fdone,          \* format_response: the stages that ran, in order
    ftodo,          \* format_response: the stages still to run
    reply,          \* what the call of the model answers: a content, or it raises
    ai_response,    \* per task: the local ai_response of handle_message
    sent,           \* per task: the responses handed to reply_text, with their parse mode
    table,          \* the rows of the table or view an export script reads
    page_size,      \* _fetch_in_pages: the argument page_size
    last_created_at, \* _fetch_in_pages: the local last_created_at (0 for None)
    pages,          \* _fetch_in_pages: the pages yielded so far
    fetch_state,    \* _fetch_in_pages: "loop" inside the while, "done" once it broke
    conversations,  \* the rows of the table conversations of one user and agent type
    turn,           \* the number of the update of that user being handled
    hstate,         \* where its handler is: "idle", "saved" (user turn stored), "asked"
    formatted_messages, \* get_response: the list last sent to the model
    user_sessions,  \* the rows of the table user_sessions of one user (at most one: upsert)
    user_data,      \* context.user_data of that user
    bot_analytics,  \* the rows log_analytics inserted for that user
    handled,        \* the commands and callbacks of that user handled so far
    db_errors       \* whether a call of the store has raised so far

rlvars == <<max_requests, window, requests, now, call, log>>

svars == <<reply, ai_response, sent>>

hvars == <<pc, task_user, task_rl, effects, reply, ai_response, sent>>

cvars == <<text, limit, remaining, chunks, cstate>>

evars == <<etext, eresult, estate>>

fvars == <<raw, agent_type, content, fdone, ftodo>>

pgvars == <<table, page_size, last_created_at, pages, fetch_state>>

cnvars == <<conversations, turn, hstate, formatted_messages>>

psvars == <<user_sessions, user_data, bot_analytics, handled, db_errors>>

dvars == <<pgvars, cnvars, psvars>>

vars == <<max_requests, window, requests, now, call, log,
          pc, task_user, task_rl, effects, reply, ai_response, sent,
          text, limit, remaining, chunks, cstate,
          etext, eresult, estate,
          raw, agent_type, content, fdone, ftodo,
          table, page_size, last_created_at, pages, fetch_state,
          conversations, turn, hstate, formatted_messages,
          user_sessions, user_data, bot_analytics, handled, db_errors>>

----------------------------------------------------------------------------
\* Bounds of the model.
NumUsers == 2
MaxReq == 2
MaxWindowMinutes == 1
MaxTime == 60
MaxCalls == 5
NumTasks == 2
MaxLen == 4
MaxLimit == 3
MaxChunks == 5
MaxEscLen == 3
MaxTableRows == 3
MaxStamp == 2
MaxPageSize == 2
MaxTurns == 3
MaxCommands == 3

\* timedelta(minutes=1).total_seconds(), the divisor of utils.py line 38.
SecPerMin == 60

\* The user ids the transport delivers (update.effective_user.id, integers).
UserIds == 1..NumUsers

\* The steps by which the clock advances between two reads.
TickSteps == {30, 60}

\* str(user_id): the key is_allowed files a user under.
UserKey(user_id) == ToString(user_id)

UserKeys == {UserKey(u) : u \in UserIds}

RECURSIVE SumLen(_, _)
SumLen(f, S) ==
    IF S = {} THEN 0
    ELSE LET k == CHOOSE x \in S : TRUE IN Len(f[k]) + SumLen(f, S \ {k})

\* Number of is_allowed calls made so far.
NumCalls == SumLen(log, UserKeys)

Min(S) == CHOOSE x \in S : \A y \in S : x <= y

\* int(x / 60) for an integer number of seconds x: truncation toward zero.
IntDiv(x, d) == IF x >= 0 THEN x \div d ELSE -((-x) \div d)

\* s[i - 1] of Python for the position i of the sequence, "" outside s.
At(s, i) == IF i \in 1..Len(s) THEN s[i] ELSE ""

\* The length of the longest run of characters of S (of characters outside
\* S) that starts at position i of s.
SpanAt(s, i, S) ==
    IF i > Len(s) THEN 0
    ELSE (CHOOSE j \in i..(Len(s) + 1) :
              /\ j = Len(s) + 1 \/ s[j] \notin S
              /\ \A k \in i..(j - 1) : s[k] \in S) - i

SpanNotAt(s, i, S) ==
    IF i > Len(s) THEN 0
    ELSE (CHOOSE j \in i..(Len(s) + 1) :
              /\ j = Len(s) + 1 \/ s[j] \in S
              /\ \A k \in i..(j - 1) : s[k] \notin S) - i

\* The first position from..to that satisfies P, 0 if there is none: where
\* the scan of re.sub finds its next match.
First(from, to, P(_)) ==
    LET hits == {i \in from..to : P(i)}
    IN  IF hits = {} THEN 0 ELSE Min(hits)

----------------------------------------------------------------------------
\* RateLimiter.__init__ and the module-level instance.

NoCall ==
    [kind |-> "none", uid |-> "", at |-> 0, had_key |-> FALSE,
     before |-> <<>>, allowed |-> FALSE, message |-> <<>>]

InitLimiter(minReq) ==
    /\ max_requests \in minReq..MaxReq
    /\ window \in {SecPerMin * m : m \in 0..MaxWindowMinutes}
    /\ requests = <<>>
    /\ now = 0
    /\ call = NoCall
    /\ log = [k \in UserKeys |-> <<>>]

\* Variants of the limiter's steps, each one slip away from the source.
CleanOldInclusive(times, t) ==
    SelectSeq(times, LAMBDA req_time : t - req_time <= window)

CleanOldMinutesAsSeconds(times, t) ==
    SelectSeq(times, LAMBDA req_time : t - req_time < window \div SecPerMin)

LimitReachedStrict(request_count) == request_count > max_requests

WaitMinutesNewest(kept, t) ==
    IntDiv(window - (t - kept[Len(kept)]), SecPerMin)

\* The list comprehension of lines 26-30: the instants that stay.
CleanOld(times, t) == SelectSeq(times, LAMBDA req_time : t - req_time < window)

\* The guard of line 36.
LimitReached(request_count) == request_count >= max_requests

\* The f-string of line 39.
RateLimitMessage(minutes) ==
    <<"Rate limit reached. Please wait ", ToString(minutes), " minutes.">>

\* Lines 37-38: the wait reported on rejection, in whole minutes.
WaitMinutes(kept, t) == IntDiv(window - (t - kept[1]), SecPerMin)

\* A limiter that records the instant of a rejected call as well.
IsAllowedOutcomeRecording(user_id) ==
    LET uid == UserKey(user_id)
        had == uid \in DOMAIN requests
        before == IF had THEN requests[uid] ELSE <<>>
        kept == IF had THEN CleanOld(before, now) ELSE <<>>
        cleaned == [k \in DOMAIN requests \cup {uid} |->
                        IF k = uid THEN kept ELSE requests[k]]
        base == [uid |-> uid, at |-> now, had_key |-> had, before |-> before]
    IN  IF LimitReached(Len(kept))
        THEN IF kept = <<>>
             THEN [requests |-> cleaned,
                   call |-> base @@ [kind |-> "raise", allowed |-> FALSE,
                                     message |-> <<"IndexError">>]]
             ELSE [requests |-> [cleaned EXCEPT ![uid] = Append(kept, now)],
                   call |-> base @@ [kind |-> "return", allowed |-> FALSE,
                                     message |-> RateLimitMessage(WaitMinutes(kept, now))]]
        ELSE [requests |-> [cleaned EXCEPT ![uid] = Append(kept, now)],
              call |-> base @@ [kind |-> "return", allowed |-> TRUE,
                                message |-> <<>>]]

\* is_allowed(user_id) at the instant the clock shows, as one uninterrupted
\* step: the outcome and the requests map it leaves behind.  kind is
\* "return" for a returned pair and "raise" for an exception (the index
\* [0] of an empty list on line 37).
IsAllowedOutcome(user_id) ==
    LET uid == UserKey(user_id)
        had == uid \in DOMAIN requests
        before == IF had THEN requests[uid] ELSE <<>>
        kept == IF had THEN CleanOld(before, now) ELSE <<>>
        cleaned == [k \in DOMAIN requests \cup {uid} |->
                        IF k = uid THEN kept ELSE requests[k]]
        base == [uid |-> uid, at |-> now, had_key |-> had, before |-> before]
    IN  IF LimitReached(Len(kept))
        THEN IF kept = <<>>
             THEN [requests |-> cleaned,
                   call |-> base @@ [kind |-> "raise", allowed |-> FALSE,
                                     message |-> <<"IndexError">>]]
             ELSE [requests |-> cleaned,
                   call |-> base @@ [kind |-> "return", allowed |-> FALSE,
                                     message |-> RateLimitMessage(WaitMinutes(kept, now))]]
        ELSE [requests |-> [cleaned EXCEPT ![uid] = Append(kept, now)],
              call |-> base @@ [kind |-> "return", allowed |-> TRUE,
                                message |-> <<>>]]

Outcome(c) ==
    IF c.kind = "raise" THEN "raised"
    ELSE IF c.allowed THEN "accepted" ELSE "rejected"

is_allowed(user_id) ==
    LET out == IsAllowedOutcome(user_id)
    IN  /\ requests' = out.requests
        /\ call' = out.call
        /\ log' = [log EXCEPT ![out.call.uid] =
                       Append(@, [at |-> now, res |-> Outcome(out.call)])]
        /\ UNCHANGED <<max_requests, window, now>>

\* A caller of the limiter: one call by some user.
Call ==
    /\ NumCalls < MaxCalls
    /\ \E u \in UserIds : is_allowed(u)
    /\ UNCHANGED <<hvars, cvars, evars, dvars, fvars>>

\* Time passes between two reads of the clock.
Tick ==
    /\ \E d \in TickSteps :
        /\ now + d <= MaxTime
        /\ now' = now + d
    /\ UNCHANGED <<max_requests, window, requests, call, log, hvars, cvars, evars, dvars, fvars>>

\* No update has arrived.
IdleTasks ==
    /\ pc = [t \in 1..NumTasks |-> "idle"]
    /\ task_user = [t \in 1..NumTasks |-> 0]
    /\ task_rl = [t \in 1..NumTasks |-> [res |-> "none", at |-> 0]]
    /\ effects = [t \in 1..NumTasks |-> <<>>]
    /\ ai_response = [t \in 1..NumTasks |-> <<>>]
    /\ sent = [t \in 1..NumTasks |-> <<>>]

\* No update has arrived, and the call of the model is going to raise.
IdleHandlers ==
    /\ IdleTasks
    /\ reply = [kind |-> "raise", content |-> <<>>, error |-> "other"]

\* split_into_chunks has not been called.
IdleChunker ==
    /\ text = <<>>
    /\ limit = 1
    /\ remaining = <<>>
    /\ chunks = <<>>
    /\ cstate = "done"

\* escape_md_v2 has not been called.
IdleEscaper ==
    /\ etext = <<>>
    /\ eresult = <<>>
    /\ estate = "done"

\* No export script runs.
IdlePager ==
    /\ table = <<>>
    /\ page_size = 1
    /\ last_created_at = 0
    /\ pages = <<>>
    /\ fetch_state = "done"

IdleScripts == IdlePager

\* No conversation is followed.
IdleStore ==
    /\ conversations = <<>>
    /\ turn = 0
    /\ hstate = "idle"
    /\ formatted_messages = <<>>

\* No command of the persona handlers was handled.
IdlePersona ==
    /\ user_sessions = {}
    /\ user_data = <<>>
    /\ bot_analytics = <<>>
    /\ handled = <<>>
    /\ db_errors = FALSE

\* format_response has not been called.
IdleFormatter ==
    /\ raw = <<>>
    /\ agent_type = "pm"
    /\ content = <<>>
    /\ fdone = <<>>
    /\ ftodo = <<>>

Init == InitLimiter(1) /\ IdleHandlers /\ IdleChunker /\ IdleEscaper /\ IdleFormatter
        /\ IdleScripts /\ IdleStore /\ IdlePersona

Next == Call \/ Tick

Spec == Init /\ [][Next]_vars

\* The limiter under every configuration with max_requests >= 0.
InitCfg == InitLimiter(0) /\ IdleHandlers /\ IdleChunker /\ IdleEscaper /\ IdleFormatter
        /\ IdleScripts /\ IdleStore /\ IdlePersona

SpecCfg == InitCfg /\ [][Next]_vars

----------------------------------------------------------------------------
\* BotHandlers.handle_message.  One task per inbound update (webhook_main.py
\* lines 101-110 await process_update once per request).  A task runs without
\* interruption from one suspension to the next, and tasks interleave only
\* there.  The handler suspends at its calls on the transport (reply_text,
\* send_chat_action) and on the model (AsyncOpenAI); the Database methods and
\* log_analytics contain no await of their own (the store's client is called
\* synchronously), so awaiting them does not suspend.  A call on the
\* transport or the store either succeeds or raises; effects records, per
\* task and in order, every such call and every raise.

Tasks == 1..NumTasks

Goto(t, label) == pc' = [pc EXCEPT ![t] = label]

Effects(t, es) == effects' = [effects EXCEPT ![t] = @ \o es]

\* The users the next update may come from: one seen before, or the next
\* new one (user ids are opaque keys, so the i-th distinct user to write is
\* given the id i).
Senders ==
    {u \in UserIds : u = 1 \/ \E s \in Tasks : task_user[s] = u - 1}

\* A variant of the entry in which the limiter suspends between its check
\* and its append.
HM_BeginSuspending(t) ==
    \/ /\ pc[t] = "idle"
       /\ \A s \in 1..(t - 1) : pc[s] # "idle"
       /\ \E u \in Senders :
            LET uid == UserKey(u)
                kept == IF uid \in DOMAIN requests
                        THEN CleanOld(requests[uid], now) ELSE <<>>
            IN  /\ requests' = [k \in DOMAIN requests \cup {uid} |->
                                    IF k = uid THEN kept ELSE requests[k]]
                /\ task_user' = [task_user EXCEPT ![t] = u]
                /\ IF LimitReached(Len(kept))
                   THEN /\ task_rl' = [task_rl EXCEPT ![t] =
                                          [res |-> "rejected", at |-> now]]
                        /\ Goto(t, "await_notice")
                   ELSE /\ task_rl' = task_rl
                        /\ Goto(t, "await_append")
       /\ UNCHANGED <<max_requests, window, now, call, log, effects, cvars, evars, dvars, fvars, svars>>
    \/ /\ pc[t] = "await_append"
       /\ requests' = [requests EXCEPT ![UserKey(task_user[t])] = Append(@, now)]
       /\ task_rl' = [task_rl EXCEPT ![t] = [res |-> "accepted", at |-> now]]
       /\ Goto(t, "await_typing")
       /\ UNCHANGED <<max_requests, window, now, call, log, task_user,
                      effects, cvars, evars, dvars, fvars, svars>>

\* Lines 258-284 up to the first suspension: the update arrives, is_allowed
\* is called at once, and the handler awaits the notice (rejected) or the
\* typing indicator (accepted).  An exception of is_allowed leaves the
\* handler.  Updates are taken in arrival order.
HM_Begin(t) ==
    /\ pc[t] = "idle"
    /\ \A s \in 1..(t - 1) : pc[s] # "idle"
    /\ \E u \in Senders :
         LET out == IsAllowedOutcome(u)
         IN  /\ is_allowed(u)
             /\ task_user' = [task_user EXCEPT ![t] = u]
             /\ task_rl' = [task_rl EXCEPT ![t] =
                               [res |-> Outcome(out.call), at |-> now]]
             /\ Goto(t, IF out.call.kind = "raise" THEN "failed"
                        ELSE IF out.call.allowed THEN "await_typing"
                        ELSE "await_notice")
    /\ UNCHANGED <<effects, cvars, evars, dvars, fvars, svars>>

\* Lines 288-321 up to the suspension in get_response: the user turn is
\* saved (save_message re-raises a failure, which the except of line 391
\* answers with the error reply), the history is read (once more by
\* get_conversation_summary when it holds more than four rows) and the model
\* is called.
SaveAndAsk ==
    {[es |-> <<"fail:save_user">>, to |-> "await_error_reply"],
     [es |-> <<"save:user", "read:history", "call:model">>, to |-> "await_model"],
     [es |-> <<"save:user", "read:history", "read:history", "call:model">>,
      to |-> "await_model"]}

\* Lines 353-365 and 391: log_analytics(message_processed), then
\* self.db.get_message_count, which Database does not define: the
\* AttributeError is caught by the except of line 391.
AfterDelivery ==
    <<"log:message_processed", "fail:get_message_count">>

\* Lines 396-425 of agents.py: what get_response returns when the call of
\* the model raised, by the first of the tests on str(e) that holds.
ErrorMessage(e) ==
    CASE e = "404" ->
           <<"S", "o", "r", "r", "y", ",", " ", "t", "h", "e", " ", "A", "I", " ",
             "m", "o", "d", "e", "l", " ", "i", "s", " ", "c", "u", "r",
             "r", "e", "n", "t", "l", "y", " ", "u", "n", "a", "v", "a",
             "i", "l", "a", "b", "l", "e", ".", " ", "T", "r", "y", " ",
             "s", "w", "i", "t", "c", "h", "i", "n", "g", " ", "a", "g",
             "e", "n", "t", "s", " ", "w", "i", "t", "h", " ", "/", "v",
             "c", " ", "o", "r", " ", "/", "p", "m", ".">>
      [] e = "401" ->
           <<"A", "P", "I", " ", "a", "u", "t", "h", "e", "n", "t", "i", "c", "a",
             "t", "i", "o", "n", " ", "f", "a", "i", "l", "e", "d", ".",
             " ", "P", "l", "e", "a", "s", "e", " ", "c", "h", "e", "c",
             "k", " ", "t", "h", "e", " ", "b", "o", "t", " ", "c", "o",
             "n", "f", "i", "g", "u", "r", "a", "t", "i", "o", "n", ".">>
      [] e = "429" ->
           <<"T", "o", "o", " ", "m", "a", "n", "y", " ", "r", "e", "q", "u", "e",
             "s", "t", "s", ".", " ", "P", "l", "e", "a", "s", "e", " ",
             "w", "a", "i", "t", " ", "a", " ", "m", "o", "m", "e", "n",
             "t", " ", "a", "n", "d", " ", "t", "r", "y", " ", "a", "g",
             "a", "i", "n", ".">>
      [] e = "timeout" ->
           <<"R", "e", "q", "u", "e", "s", "t", " ", "t", "i", "m", "e", "d", " ",
             "o", "u", "t", ".", " ", "P", "l", "e", "a", "s", "e", " ",
             "t", "r", "y", " ", "a", "g", "a", "i", "n", " ", "w", "i",
             "t", "h", " ", "a", " ", "s", "h", "o", "r", "t", "e", "r",
             " ", "m", "e", "s", "s", "a", "g", "e", ".">>
      [] OTHER ->
           <<"I", " ", "a", "p", "o", "l", "o", "g", "i", "z", "e", ",", " ", "b",
             "u", "t", " ", "I", "'", "m", " ", "h", "a", "v", "i", "n",
             "g", " ", "t", "r", "o", "u", "b", "l", "e", " ", "p", "r",
             "o", "c", "e", "s", "s", "i", "n", "g", " ", "y", "o", "u",
             "r", " ", "r", "e", "q", "u", "e", "s", "t", ".", " ", "P",
             "l", "e", "a", "s", "e", " ", "t", "r", "y", " ", "a", "g",
             "a", "i", "n", ".">>

\* The length of the match of <[^>]+> at position i of s, 0 if there is
\* none.
TagLen(s, i) ==
    LET n == SpanNotAt(s, i + 1, {">"})
    IN  IF At(s, i) = "<" /\ n >= 1 /\ At(s, i + 1 + n) = ">" THEN n + 2 ELSE 0

\* Line 344: re.sub(r"<[^>]+>", "", ai_response).
RECURSIVE StripTagsFrom(_, _)
StripTagsFrom(s, from) ==
    LET i == First(from, Len(s), LAMBDA k : TagLen(s, k) > 0)
    IN  IF i = 0 THEN SubSeq(s, from, Len(s))
        ELSE SubSeq(s, from, i - 1) \o StripTagsFrom(s, i + TagLen(s, i))

\* A fallback that sends the response as it is.
KeepTags(s) == s

StripTags(s) == StripTagsFrom(s, 1)

\* Lines 336-340 and 345-349: reply_text(text, parse_mode=mode) accepted by
\* the transport.
Send(t, message, mode) ==
    sent' = [sent EXCEPT ![t] = Append(@, [text |-> message, parse_mode |-> mode])]

\* A variant of lines 264-275 without the return: the handler goes on to
\* the typing indicator.
HM_NoticeNoReturn(t) ==
    /\ pc[t] = "await_notice"
    /\ \/ /\ Effects(t, <<"send:notice", "log:rate_limited">>)
          /\ Goto(t, "await_typing")
       \/ /\ Effects(t, <<"fail:notice">>)
          /\ Goto(t, "failed")
    /\ UNCHANGED <<rlvars, task_user, task_rl, cvars, evars, dvars, fvars, svars>>

\* Lines 264-275: reply_text with the notice completes; then
\* log_analytics(rate_limited) (lines 28-40, which swallow a failed insert)
\* and return.  If reply_text raises, nothing in the handler catches it.
HM_Notice(t) ==
    /\ pc[t] = "await_notice"
    /\ \/ /\ Effects(t, <<"send:notice", "log:rate_limited">>)
          /\ Goto(t, "done")
       \/ /\ Effects(t, <<"fail:notice">>)
          /\ Goto(t, "failed")
    /\ UNCHANGED <<rlvars, task_user, task_rl, cvars, evars, dvars, fvars, svars>>

\* Lines 281-321: send_chat_action completes (it is outside the try), then
\* the handler runs on to the model call or to the error reply.
HM_Typing(t) ==
    /\ pc[t] = "await_typing"
    /\ \/ /\ Effects(t, <<"fail:typing">>)
          /\ Goto(t, "failed")
       \/ \E step \in SaveAndAsk :
            /\ Effects(t, <<"send:typing">> \o step.es)
            /\ Goto(t, step.to)
    /\ UNCHANGED <<rlvars, task_user, task_rl, cvars, evars, dvars, fvars, svars>>

\* Lines 317-340: get_response returns (the text format_response made of
\* the completion, or the message of its except branch when the call of
\* the model raised), the assistant turn is saved and the response is sent
\* with parse_mode HTML.
HM_Model(t) ==
    /\ IF reply.kind = "raise" THEN pc[t] = "await_model"
       ELSE pc[t] = "format_response" /\ ftodo = <<>>
    /\ ai_response' = [ai_response EXCEPT ![t] =
                           IF reply.kind = "raise" THEN ErrorMessage(reply.error)
                           ELSE content]
    /\ \/ /\ Effects(t, <<"save:assistant">>)
          /\ Goto(t, "await_send")
       \/ /\ Effects(t, <<"fail:save_assistant">>)
          /\ Goto(t, "await_error_reply")
    /\ UNCHANGED <<rlvars, task_user, task_rl, cvars, evars, dvars, fvars, reply, sent>>

\* Lines 335-365: reply_text with the response completes; on success the
\* handler logs and asks for the message count, on failure it sends the
\* plain-text fallback.
HM_Send(t) ==
    /\ pc[t] = "await_send"
    /\ \/ /\ Effects(t, <<"send:response">> \o AfterDelivery)
          /\ Send(t, ai_response[t], "HTML")
          /\ Goto(t, "await_error_reply")
       \/ /\ Effects(t, <<"fail:response">>)
          /\ sent' = sent
          /\ Goto(t, "await_send_plain")
    /\ UNCHANGED <<rlvars, task_user, task_rl, cvars, evars, dvars, fvars, reply, ai_response>>

\* Lines 345-365: the plain-text fallback (the response without its tags,
\* parse_mode None) completes.
HM_SendPlain(t) ==
    /\ pc[t] = "await_send_plain"
    /\ \/ /\ Effects(t, <<"send:plain">> \o AfterDelivery)
          /\ Send(t, StripTags(ai_response[t]), "None")
       \/ /\ Effects(t, <<"fail:plain">>)
          /\ sent' = sent
    /\ Goto(t, "await_error_reply")
    /\ UNCHANGED <<rlvars, task_user, task_rl, cvars, evars, dvars, fvars, reply, ai_response>>

\* Lines 391-402: the error reply of the except branch completes; then
\* log_analytics(message_error).  If reply_text raises here, the exception
\* leaves the handler.
HM_ErrorReply(t) ==
    /\ pc[t] = "await_error_reply"
    /\ \/ /\ Effects(t, <<"send:error", "log:message_error">>)
          /\ Goto(t, "done")
       \/ /\ Effects(t, <<"fail:error">>)
          /\ Goto(t, "failed")
    /\ UNCHANGED <<rlvars, task_user, task_rl, cvars, evars, dvars, fvars, svars>>

handle_message(t) ==
    \/ HM_Begin(t)
    \/ HM_Notice(t)
    \/ HM_Typing(t)
    \/ HM_Model(t)
    \/ HM_Send(t)
    \/ HM_SendPlain(t)
    \/ HM_ErrorReply(t)

\* The clock is read only on arrival of an update (line 21 of utils.py, via
\* line 262): it advances while updates are still to come.
TickBeforeArrival == Tick /\ \E t \in Tasks : pc[t] = "idle"

\* The module-level instance rate_limiter = RateLimiter(max_requests=30,
\* window_minutes=60) of utils.py line 47, scaled down: fewer requests than
\* there are concurrent updates, and a window of one minute.
InitHandle ==
    /\ max_requests \in 1..(NumTasks - 1)
    /\ window = SecPerMin
    /\ requests = <<>>
    /\ now = 0
    /\ call = NoCall
    /\ log = [k \in UserKeys |-> <<>>]
    /\ IdleHandlers
    /\ IdleChunker
    /\ IdleEscaper
    /\ IdleScripts
    /\ IdleStore
    /\ IdlePersona
    /\ IdleFormatter

NextHandle == (\E t \in Tasks : handle_message(t)) \/ TickBeforeArrival

SpecHandle == InitHandle /\ [][NextHandle]_vars

----------------------------------------------------------------------------
\* split_into_chunks(text, limit).  A string is a sequence of characters;
\* Python's 0-based index i is position i + 1 of the sequence.

NL == "\n"

\* The characters texts are built from.
Alphabet == {"a", "b", NL}

RECURSIVE SeqsUpTo(_)
SeqsUpTo(n) ==
    IF n = 0 THEN {<<>>}
    ELSE LET shorter == SeqsUpTo(n - 1)
         IN  shorter \cup {Append(s, c) : s \in {x \in shorter : Len(x) = n - 1},
                                          c \in Alphabet}

Texts == SeqsUpTo(MaxLen)

Max(S) == CHOOSE x \in S : \A y \in S : x >= y

\* s.rfind(c, lo, hi): the highest 0-based index i with lo <= i < hi and
\* s[i] = c, or -1.
RFind(s, c, lo, hi) ==
    LET top == IF hi < Len(s) THEN hi ELSE Len(s)
        found == {i \in lo..(top - 1) : s[i + 1] = c}
    IN  IF found = {} THEN -1 ELSE Max(found)

\* A variant of lstrip that removes one leading c at most.
LStripOne(s, c) ==
    IF s # <<>> /\ Head(s) = c THEN Tail(s) ELSE s

\* s.lstrip(c) for a one-character c.
RECURSIVE LStrip(_, _)
LStrip(s, c) ==
    IF s # <<>> /\ Head(s) = c THEN LStrip(Tail(s), c) ELSE s

\* A variant of line 96 that cuts at any newline found, also at the very
\* start of the remainder.
SplitAtAnyNewline(rem, lim) ==
    LET split_at == RFind(rem, NL, 0, lim)
    IN  IF split_at = -1 THEN lim ELSE split_at

\* A variant of line 95 that searches the whole remainder.
SplitAtUnbounded(rem, lim) ==
    LET split_at == RFind(rem, NL, 0, Len(rem))
    IN  IF split_at = -1 \/ 2 * split_at < lim THEN lim ELSE split_at

\* A variant of line 96 that also rejects a newline exactly at limit / 2.
SplitAtPastHalf(rem, lim) ==
    LET split_at == RFind(rem, NL, 0, lim)
    IN  IF split_at = -1 \/ 2 * split_at <= lim THEN lim ELSE split_at

\* Lines 95-97: the cut index (split_at < limit * 0.5 is 2 * split_at < limit).
SplitAt(rem, lim) ==
    LET split_at == RFind(rem, NL, 0, lim)
    IN  IF split_at = -1 \/ 2 * split_at < lim THEN lim ELSE split_at

\* Lines 88-89: the call.
InitChunk ==
    /\ text \in Texts
    /\ limit \in 0..MaxLimit
    /\ remaining = text
    /\ chunks = <<>>
    /\ cstate = "loop"

\* Line 90 false: the loop ends and chunks is returned.
ChunkExit ==
    /\ cstate = "loop"
    /\ remaining = <<>>
    /\ cstate' = "done"
    /\ UNCHANGED <<text, limit, remaining, chunks, rlvars, hvars, evars, dvars, fvars>>

\* Lines 91-93: the remainder fits and becomes the last chunk.
ChunkLast ==
    /\ cstate = "loop"
    /\ remaining # <<>>
    /\ Len(remaining) <= limit
    /\ chunks' = Append(chunks, remaining)
    /\ cstate' = "done"
    /\ UNCHANGED <<text, limit, remaining, rlvars, hvars, evars, dvars, fvars>>

\* Lines 94-100: one cut.  (With limit = 0 the loop need not end; the model
\* follows it for MaxChunks chunks.)
ChunkSplit ==
    /\ cstate = "loop"
    /\ remaining # <<>>
    /\ Len(remaining) > limit
    /\ Len(chunks) < MaxChunks
    /\ LET split_at == SplitAt(remaining, limit)
       IN  /\ chunks' = Append(chunks, SubSeq(remaining, 1, split_at))
           /\ remaining' = LStrip(SubSeq(remaining, split_at + 1, Len(remaining)), NL)
    /\ UNCHANGED <<text, limit, cstate, rlvars, hvars, evars, dvars, fvars>>

NextChunk == ChunkExit \/ ChunkLast \/ ChunkSplit

\* The limiter and the handlers idle while a text is chunked.
InitChunker ==
    /\ max_requests = 1
    /\ window = SecPerMin
    /\ requests = <<>>
    /\ now = 0
    /\ call = NoCall
    /\ log = [k \in UserKeys |-> <<>>]
    /\ IdleHandlers
    /\ IdleEscaper
    /\ IdleScripts
    /\ IdleStore
    /\ IdlePersona
    /\ IdleFormatter
    /\ InitChunk

SpecChunk == InitChunker /\ [][NextChunk]_vars

----------------------------------------------------------------------------
\* escape_md_v2(text).  (The branch of line 70 for text = None returns the
\* empty string; the texts of the model are strings.)

Backslash == "\\"

\* The grave accent, which a TLA+ string cannot hold: this string stands for
\* the character.
Backtick == "grave"

\* Line 73: the reserved characters of MarkdownV2.
Specials ==
    {"_", "*", "[", "]", "(", ")", "~", Backtick, ">", "#", "+", "-", "=", "|",
     "{", "}", ".", "!"}

\* The characters escaped texts are built from: a plain one, the backslash,
\* two reserved ones and the newline.
EscAlphabet == {"a", Backslash, "_", ".", NL}

RECURSIVE EscSeqsUpTo(_)
EscSeqsUpTo(n) ==
    IF n = 0 THEN {<<>>}
    ELSE LET shorter == EscSeqsUpTo(n - 1)
         IN  shorter \cup {Append(s, c) : s \in {x \in shorter : Len(x) = n - 1},
                                          c \in EscAlphabet}

EscTexts == EscSeqsUpTo(MaxEscLen)

\* A variant of line 72 that leaves backslashes alone.
KeepBackslash(s) == s

\* Line 72: text.replace("\\", "\\\\").
RECURSIVE ReplaceBackslash(_)
ReplaceBackslash(s) ==
    IF s = <<>> THEN <<>>
    ELSE (IF Head(s) = Backslash THEN <<Backslash, Backslash>> ELSE <<Head(s)>>)
         \o ReplaceBackslash(Tail(s))

\* A variant of lines 76-79 that appends every character as it is.
RECURSIVE EscapeNoSpecials(_)
EscapeNoSpecials(s) ==
    IF s = <<>> THEN <<>> ELSE <<Head(s)>> \o EscapeNoSpecials(Tail(s))

\* Lines 75-80: the loop over escaped and the join of result_chars.
RECURSIVE EscapeChars(_)
EscapeChars(s) ==
    IF s = <<>> THEN <<>>
    ELSE (IF Head(s) \in Specials THEN <<Backslash, Head(s)>> ELSE <<Head(s)>>)
         \o EscapeChars(Tail(s))

escape_md_v2(t) == EscapeChars(ReplaceBackslash(t))

InitEscape ==
    /\ etext \in EscTexts
    /\ eresult = <<>>
    /\ estate = "call"

\* Lines 64-80: the call returns.
Escape ==
    /\ estate = "call"
    /\ eresult' = escape_md_v2(etext)
    /\ estate' = "done"
    /\ UNCHANGED <<etext, rlvars, hvars, cvars, fvars, dvars>>

NextEscape == Escape

\* The limiter, the handlers and the chunker idle while a text is escaped.
InitEscaper ==
    /\ max_requests = 1
    /\ window = SecPerMin
    /\ requests = <<>>
    /\ now = 0
    /\ call = NoCall
    /\ log = [k \in UserKeys |-> <<>>]
    /\ IdleHandlers
    /\ IdleChunker
    /\ IdleFormatter
    /\ IdleScripts
    /\ IdleStore
    /\ IdlePersona
    /\ InitEscape

SpecEscape == InitEscaper /\ [][NextEscape]_vars

----------------------------------------------------------------------------
\* AIAgent.format_response and the methods it calls (src/bot/agents.py).  A
\* string is a sequence of characters.  The characters below cannot be
\* written in a TLA+ string: each of these strings stands for one character.

EmDash == "emdash"
EnDash == "endash"
BulletDot == "bulletdot"
Rocket == "rocket"
MoneyBag == "moneybag"

\* The characters matched by \s and by \d.
Whitespace == {" ", NL}
Digit == {"0", "1", "2", "3", "4", "5", "6", "7", "8", "9"}

UpperCase ==
    <<"A", "B", "C", "D", "E", "F", "G", "H", "I", "J", "K", "L", "M",
      "N", "O", "P", "Q", "R", "S", "T", "U", "V", "W", "X", "Y", "Z">>

LowerCase ==
    <<"a", "b", "c", "d", "e", "f", "g", "h", "i", "j", "k", "l", "m",
      "n", "o", "p", "q", "r", "s", "t", "u", "v", "w", "x", "y", "z">>

Letter == {UpperCase[i] : i \in 1..26} \cup {LowerCase[i] : i \in 1..26}

\* str.lower().
LowerChar(c) ==
    IF \E i \in 1..26 : UpperCase[i] = c
    THEN LowerCase[CHOOSE i \in 1..26 : UpperCase[i] = c]
    ELSE c

Lower(s) == [i \in 1..Len(s) |-> LowerChar(s[i])]

\* s[:n] and s[n:].
Take(s, n) == SubSeq(s, 1, n)

Drop(s, n) == SubSeq(s, n + 1, Len(s))

\* str.startswith, str.endswith, the operator in, str.count.
StartsWith(s, p) == Len(p) <= Len(s) /\ Take(s, Len(p)) = p

EndsWith(s, p) == Len(p) <= Len(s) /\ Drop(s, Len(s) - Len(p)) = p

Contains(s, p) == \E i \in 0..(Len(s) - Len(p)) : SubSeq(s, i + 1, i + Len(p)) = p

CountOf(s, c) == Cardinality({i \in 1..Len(s) : s[i] = c})

Span(s, S) == SpanAt(s, 1, S)

SpanNot(s, S) == SpanNotAt(s, 1, S)

\* The positions of s, in order.
Positions(s) == [i \in 1..Len(s) |-> i]

Reverse(s) == [i \in 1..Len(s) |-> s[Len(s) + 1 - i]]

\* str.lstrip(chars), str.rstrip(chars), str.strip(chars), str.strip().
LStripSet(s, S) == Drop(s, Span(s, S))

RStripSet(s, S) == Take(s, Len(s) - Span(Reverse(s), S))

StripSet(s, S) == RStripSet(LStripSet(s, S), S)

Strip(s) == StripSet(s, Whitespace)

\* str.split(c) for a one-character c, and sep.join(parts).
RECURSIVE Split(_, _)
Split(s, c) ==
    LET n == SpanNot(s, {c})
    IN  IF n = Len(s) THEN <<s>>
        ELSE <<Take(s, n)>> \o Split(Drop(s, n + 1), c)

RECURSIVE Join(_, _)
Join(parts, sep) ==
    IF parts = <<>> THEN <<>>
    ELSE IF Len(parts) = 1 THEN parts[1]
    ELSE parts[1] \o sep \o Join(Tail(parts), sep)

\* [f(x) for x in xs].
Map(xs, f(_)) == [i \in 1..Len(xs) |-> f(xs[i])]

\* re.sub(r"\s+", " ", s): the first character of each run of white space
\* becomes a space, the others go.
CollapseSpace(s) ==
    LET kept == SelectSeq(Positions(s),
                          LAMBDA i : s[i] \notin Whitespace \/ At(s, i - 1) \notin Whitespace)
    IN  [k \in 1..Len(kept) |-> IF s[kept[k]] \in Whitespace THEN " " ELSE s[kept[k]]]

----------------------------------------------------------------------------
\* _flatten_markdown_tables, lines 141-214.

\* Lines 151-153.
is_table_line(line) ==
    LET s == Strip(line)
    IN  CountOf(s, "|") >= 1 /\ (StartsWith(s, <<"|">>) \/ CountOf(s, "|") >= 2)

\* The cell :?-+:? of sep_pattern.
IsAlignCell(c) ==
    LET a == IF StartsWith(c, <<":">>) THEN Tail(c) ELSE c
        d == Span(a, {"-"})
    IN  d >= 1 /\ Drop(a, d) \in {<<>>, <<":">>}

\* Line 155, sep_pattern.match(l) for a stripped l: an optional pipe, two
\* or more alignment cells separated by pipes, white space allowed around
\* the cells, an optional pipe.
sep_pattern(l) ==
    LET a == IF StartsWith(l, <<"|">>) THEN Tail(l) ELSE l
        b == IF EndsWith(a, <<"|">>) THEN Take(a, Len(a) - 1) ELSE a
        cells == Split(b, "|")
    IN  Len(cells) >= 2 /\ \A i \in 1..Len(cells) : IsAlignCell(Strip(cells[i]))

\* Lines 172-178.
split_cells(raw_line) ==
    LET s == Strip(raw_line)
        a == IF StartsWith(s, <<"|">>) THEN Tail(s) ELSE s
        b == IF EndsWith(a, <<"|">>) THEN Take(a, Len(a) - 1) ELSE a
    IN  Map(Split(b, "|"), Strip)

\* Lines 197-203: the pairs of one row, the empty ones left out.
RECURSIVE Pairs(_, _)
Pairs(header, cells) ==
    IF header = <<>> THEN <<>>
    ELSE LET h_clean == StripSet(CollapseSpace(Head(header)), {":", " "})
             v_clean == CollapseSpace(Head(cells))
             rest == Pairs(Tail(header), Tail(cells))
         IN  IF h_clean # <<>> /\ v_clean # <<>>
             THEN <<h_clean \o <<":", " ">> \o v_clean>> \o rest
             ELSE IF v_clean # <<>> THEN <<v_clean>> \o rest
             ELSE rest

\* A variant of line 204 that joins the pairs with a comma.
BulletCommas(header, cells) ==
    IF header # <<>> /\ Len(header) = Len(cells)
    THEN <<"-", " ">> \o Join(Pairs(header, cells), <<",", " ">>)
    ELSE <<"-", " ">> \o Join(SelectSeq(Map(cells, Strip), LAMBDA c : c # <<>>),
                              <<" ", EmDash, " ">>)

\* Lines 195-206: the bullet of one row.
Bullet(header, cells) ==
    IF header # <<>> /\ Len(header) = Len(cells)
    THEN <<"-", " ">> \o Join(Pairs(header, cells), <<";", " ">>)
    ELSE <<"-", " ">> \o Join(SelectSeq(Map(cells, Strip), LAMBDA c : c # <<>>),
                              <<" ", EmDash, " ">>)

\* Lines 180-212: what one block of table lines puts out.
EmitTable(table_block) ==
    LET cleaned_lines == SelectSeq(table_block, LAMBDA l : ~sep_pattern(Strip(l)))
        header == IF cleaned_lines = <<>> THEN <<>> ELSE split_cells(cleaned_lines[1])
        rows == IF cleaned_lines = <<>> THEN <<>>
                ELSE Map(Tail(cleaned_lines), split_cells)
    IN  IF rows # <<>>
        THEN <<<<>>>> \o [i \in 1..Len(rows) |-> Bullet(header, rows[i])] \o <<<<>>>>
        ELSE cleaned_lines

\* The number of table lines lines starts with.
RECURSIVE TableSpan(_)
TableSpan(lines) ==
    IF lines # <<>> /\ is_table_line(Head(lines)) THEN 1 + TableSpan(Tail(lines)) ELSE 0

\* Lines 157-212: the loop over the lines.
RECURSIVE FlattenLines(_)
FlattenLines(lines) ==
    IF lines = <<>> THEN <<>>
    ELSE IF ~is_table_line(Head(lines))
         THEN <<Head(lines)>> \o FlattenLines(Tail(lines))
         ELSE LET n == TableSpan(lines)
              IN  EmitTable(Take(lines, n)) \o FlattenLines(Drop(lines, n))

flatten_markdown_tables(c) == Join(FlattenLines(Split(c, NL)), <<NL>>)

----------------------------------------------------------------------------
\* clean_references, lines 125-139.

\* The length of the match of \[\d+\] at position i of s, 0 if there is
\* none.
MarkerLen(s, i) ==
    LET d == SpanAt(s, i + 1, Digit)
    IN  IF At(s, i) = "[" /\ d >= 1 /\ At(s, i + 1 + d) = "]" THEN d + 2 ELSE 0

\* Line 128: re.sub(r"\[(\d+)\]", "", content).
RECURSIVE RemoveMarkersFrom(_, _)
RemoveMarkersFrom(s, from) ==
    LET i == First(from, Len(s), LAMBDA k : MarkerLen(s, k) > 0)
    IN  IF i = 0 THEN SubSeq(s, from, Len(s))
        ELSE SubSeq(s, from, i - 1) \o RemoveMarkersFrom(s, i + MarkerLen(s, i))

RemoveMarkers(s) == RemoveMarkersFrom(s, 1)

\* Line 137: re.sub(r"\s+([.,!?])", r"\1", content): a run of white space
\* goes when one of these marks follows it.
TightenPunctuation(s) ==
    LET kept == SelectSeq(Positions(s),
                    LAMBDA i : ~(/\ s[i] \in Whitespace
                                 /\ At(s, i + SpanAt(s, i, Whitespace))
                                        \in {".", ",", "!", "?"}))
    IN  [k \in 1..Len(kept) |-> s[kept[k]]]

\* Lines 128-139; line 131 removes the chains of markers that line 128 left
\* or formed.
clean_references(c) ==
    Strip(TightenPunctuation(CollapseSpace(RemoveMarkers(RemoveMarkers(c)))))

----------------------------------------------------------------------------
\* The citation strategies, lines 29-123, and the link conversion of lines
\* 235-240.

\* Whether s starts with a match of https?://\S+, and the length of the
\* match.
UrlScheme(s) ==
    IF StartsWith(s, <<"h", "t", "t", "p", ":", "/", "/">>) THEN 7
    ELSE IF StartsWith(s, <<"h", "t", "t", "p", "s", ":", "/", "/">>) THEN 8
    ELSE 0

IsUrl(s) == UrlScheme(s) > 0 /\ SpanNot(Drop(s, UrlScheme(s)), Whitespace) >= 1

UrlLen(s) == UrlScheme(s) + SpanNot(Drop(s, UrlScheme(s)), Whitespace)

\* The markdown link of lines 67 and 111.
Link(ref) == <<"[">> \o ref.title \o <<"]", "(">> \o ref.url \o <<")">>

\* d[num] of a dict filled in the order of entries: the last entry of that
\* number.
HasRef(entries, num) == \E i \in 1..Len(entries) : entries[i].num = num

RefOf(entries, num) ==
    entries[Max({i \in 1..Len(entries) : entries[i].num = num})]

\* Lines 92-98: the match of line 93 on one line of the sources text.  The
\* title group is lazy and everything after it is optional, so the match
\* stops with the title empty (replaced by "Source" on line 96); the URL is
\* found only directly after the number, white space and an optional dash.
PerplexityEntries(line) ==
    LET d == Span(line, Digit)
        rest == LStripSet(Drop(line, d + 1), Whitespace)
        after == IF rest # <<>> /\ Head(rest) \in {"-", EnDash}
                 THEN LStripSet(Tail(rest), Whitespace)
                 ELSE rest
    IN  IF d >= 1 /\ Len(line) > d /\ line[d + 1] = "."
        THEN <<[num |-> Take(line, d),
                title |-> <<"S", "o", "u", "r", "c", "e">>,
                url |-> IF IsUrl(after) THEN Take(after, UrlLen(after)) ELSE <<"#">>]>>
        ELSE <<>>

\* The entries of the lines that match, in order.
RECURSIVE Concat(_)
Concat(seqs) == IF seqs = <<>> THEN <<>> ELSE Head(seqs) \o Concat(Tail(seqs))

EntriesOf(lines, entry(_)) == Concat(Map(lines, entry))

\* Whether s starts with \d+\. , one line of the group of line 84.
IsNumbered(s) ==
    LET d == Span(s, Digit) IN d >= 1 /\ Len(s) > d /\ s[d + 1] = "."

\* The length of the match of (?:\d+\..*\n?)+ at the start of s.
RECURSIVE NumberedLinesLen(_)
NumberedLinesLen(s) ==
    IF ~IsNumbered(s) THEN 0
    ELSE LET n == SpanNot(s, {NL})
         IN  IF n = Len(s) THEN n
             ELSE n + 1 + NumberedLinesLen(Drop(s, n + 1))

\* The length of the match of Sources?:?\s*\n at the start of s when a
\* numbered line follows it, else 0.
SourcesHeadLen(s) ==
    LET a == 6 + (IF Len(s) > 6 /\ s[7] = "s" THEN 1 ELSE 0)
        b == a + (IF Len(s) > a /\ s[a + 1] = ":" THEN 1 ELSE 0)
        w == Span(Drop(s, b), Whitespace)
    IN  IF /\ StartsWith(s, <<"S", "o", "u", "r", "c", "e">>)
           /\ w >= 1
           /\ s[b + w] = NL
           /\ IsNumbered(Drop(s, b + w))
        THEN b + w
        ELSE 0

\* The length of the match of \[([0-9,\s]+)\] at position i of s, 0 if
\* there is none.
GroupLen(s, i) ==
    LET n == SpanAt(s, i + 1, Digit \cup {","} \cup Whitespace)
    IN  IF At(s, i) = "[" /\ n >= 1 /\ At(s, i + 1 + n) = "]" THEN n + 2 ELSE 0

\* A replacement that joins the links found and leaves nothing when there
\* is none.
replace_inline_citation_dropping(m, sources) ==
    LET citations == Map(Split(SubSeq(m, 2, Len(m) - 1), ","), Strip)
        found == SelectSeq(citations, LAMBDA c : HasRef(sources, c))
        links == [i \in 1..Len(found) |-> Link(RefOf(sources, found[i]))]
    IN  Join(links, <<" ">>)

\* Lines 104-113: replace_inline_citation on the match m.
replace_inline_citation(m, sources) ==
    LET citations == Map(Split(SubSeq(m, 2, Len(m) - 1), ","), Strip)
        found == SelectSeq(citations, LAMBDA c : HasRef(sources, c))
        links == [i \in 1..Len(found) |-> Link(RefOf(sources, found[i]))]
    IN  IF links # <<>> THEN Join(links, <<" ">>) ELSE m

\* Line 116: re.sub(r"\[([0-9,\s]+)\]", replace_inline_citation, s).
RECURSIVE ReplaceGroupsFrom(_, _, _)
ReplaceGroupsFrom(s, from, sources) ==
    LET i == First(from, Len(s), LAMBDA k : GroupLen(s, k) > 0)
    IN  IF i = 0 THEN SubSeq(s, from, Len(s))
        ELSE SubSeq(s, from, i - 1)
             \o replace_inline_citation(SubSeq(s, i, i + GroupLen(s, i) - 1), sources)
             \o ReplaceGroupsFrom(s, i + GroupLen(s, i), sources)

ReplaceGroups(s, sources) == ReplaceGroupsFrom(s, 1, sources)

\* Line 85: the positions of c where sources_pattern matches.
SourcesStarts(c) == {i \in 1..Len(c) : SourcesHeadLen(Drop(c, i - 1)) > 0}

\* Lines 88-98: the entries parsed from group 1 of the leftmost match.
SourcesOf(c) ==
    LET start == Min(SourcesStarts(c))
        body == Drop(c, start - 1 + SourcesHeadLen(Drop(c, start - 1)))
    IN  EntriesOf(Split(Take(body, NumberedLinesLen(body)), NL), PerplexityEntries)

\* Line 101: content[:sources_match.start()].strip().
content_without_sources(c) == Strip(Take(c, Min(SourcesStarts(c)) - 1))

\* Lines 79-123.
parse_perplexity_citations(c) ==
    IF SourcesStarts(c) = {} THEN c
    ELSE ReplaceGroups(content_without_sources(c), SourcesOf(c))

\* Whether s starts with a match of \s*[-]\s*(https?://\S+), the dash being
\* a hyphen or an en dash; and the URL matched.
DashUrlTail(s) ==
    LET a == LStripSet(s, Whitespace)
    IN  IF a # <<>> /\ Head(a) \in {"-", EnDash}
        THEN LStripSet(Tail(a), Whitespace)
        ELSE <<>>

IsDashUrl(s) == IsUrl(DashUrlTail(s))

\* Lines 48-53: the match of line 48 on one line of the references section.
\* The title is the shortest text after which a dash and a URL follow.
ReferenceEntries(line) ==
    LET d == Span(line, Digit)
        db == IF line # <<>> THEN Span(Tail(line), Digit) ELSE 0
        bracketed == /\ line # <<>>
                     /\ Head(line) = "["
                     /\ db >= 1
                     /\ Len(line) >= db + 2
                     /\ line[db + 2] = "]"
        dotted == d >= 1 /\ Len(line) > d /\ line[d + 1] = "."
        num == IF bracketed THEN SubSeq(line, 2, db + 1) ELSE Take(line, d)
        body == LStripSet(Drop(line, IF bracketed THEN db + 2 ELSE d + 1), Whitespace)
        cuts == {p \in 0..Len(body) : IsDashUrl(Drop(body, p))}
    IN  IF (bracketed \/ dotted) /\ cuts # {}
        THEN LET p == Min(cuts)
                 u == DashUrlTail(Drop(body, p))
             IN  <<[num |-> num,
                    title |-> Strip(Take(body, p)),
                    url |-> Take(u, UrlLen(u))]>>
        ELSE <<>>

\* Line 42.
IsMarkerLine(line) ==
    \/ Contains(Lower(line), <<"r", "e", "f", "e", "r", "e", "n", "c", "e", "s", ":">>)
    \/ Contains(Lower(line), <<"s", "o", "u", "r", "c", "e", "s", ":">>)
    \/ Contains(Lower(line), <<"c", "i", "t", "a", "t", "i", "o", "n", "s", ":">>)

\* The number of lines before the first marker line.
RECURSIVE ContentSpan(_)
ContentSpan(lines) ==
    IF lines # <<>> /\ ~IsMarkerLine(Head(lines)) THEN 1 + ContentSpan(Tail(lines)) ELSE 0

\* Lines 62-68: replace_citation on the match m.
replace_citation(m, references) ==
    IF HasRef(references, SubSeq(m, 2, Len(m) - 1))
    THEN Link(RefOf(references, SubSeq(m, 2, Len(m) - 1)))
    ELSE m

\* Line 71: re.sub(citation_pattern, replace_citation, s).
RECURSIVE ReplaceCitationsFrom(_, _, _)
ReplaceCitationsFrom(s, from, references) ==
    LET i == First(from, Len(s), LAMBDA k : MarkerLen(s, k) > 0)
    IN  IF i = 0 THEN SubSeq(s, from, Len(s))
        ELSE SubSeq(s, from, i - 1)
             \o replace_citation(SubSeq(s, i, i + MarkerLen(s, i) - 1), references)
             \o ReplaceCitationsFrom(s, i + MarkerLen(s, i), references)

ReplaceCitations(s, references) == ReplaceCitationsFrom(s, 1, references)

\* Lines 36-56: the lines after the first marker line are parsed as
\* references, further marker lines are skipped.
ReferencesOf(c) ==
    LET lines == Split(c, NL)
    IN  EntriesOf(SelectSeq(Drop(lines, ContentSpan(lines)), LAMBDA l : ~IsMarkerLine(l)),
                  ReferenceEntries)

\* Line 59: the lines before the first marker line, joined again.
content_without_refs(c) ==
    LET lines == Split(c, NL) IN Join(Take(lines, ContentSpan(lines)), <<NL>>)

\* Lines 29-77.
extract_and_format_citations(c) ==
    ReplaceCitations(content_without_refs(c), ReferencesOf(c))

\* The length of the match of \[([^\]]+)\]\(([^)]+)\) at position i of s,
\* 0 if there is none; and the length of its title.
LinkTitleLen(s, i) == SpanNotAt(s, i + 1, {"]"})

LinkLen(s, i) ==
    LET t == LinkTitleLen(s, i)
        u == SpanNotAt(s, i + t + 3, {")"})
    IN  IF /\ At(s, i) = "["
           /\ t >= 1
           /\ At(s, i + t + 1) = "]"
           /\ At(s, i + t + 2) = "("
           /\ u >= 1
           /\ At(s, i + t + 3 + u) = ")"
        THEN t + u + 4
        ELSE 0

\* Lines 235-238: md_link_to_plain on the match m whose title has length t.
md_link_to_plain(m, t) ==
    SubSeq(m, 2, t + 1) \o <<" ", "-", " ">> \o SubSeq(m, t + 4, Len(m) - 1)

\* Line 240: re.sub(r"\[([^\]]+)\]\(([^)]+)\)", md_link_to_plain, s).
RECURSIVE LinksToPlainFrom(_, _)
LinksToPlainFrom(s, from) ==
    LET i == First(from, Len(s), LAMBDA k : LinkLen(s, k) > 0)
    IN  IF i = 0 THEN SubSeq(s, from, Len(s))
        ELSE SubSeq(s, from, i - 1)
             \o md_link_to_plain(SubSeq(s, i, i + LinkLen(s, i) - 1), LinkTitleLen(s, i))
             \o LinksToPlainFrom(s, i + LinkLen(s, i))

LinksToPlain(s) == LinksToPlainFrom(s, 1)

----------------------------------------------------------------------------
\* format_response, lines 242-345: the structural rewriting.

\* The length of the match at position i of s, 0 if there is none, of
\* (?<!\n)\s*###\s+ (line 243).
HeadingLen(s, i) ==
    LET w == SpanAt(s, i, Whitespace)
        v == SpanAt(s, i + w + 3, Whitespace)
    IN  IF /\ At(s, i - 1) # NL
           /\ At(s, i + w) = "#"
           /\ At(s, i + w + 1) = "#"
           /\ At(s, i + w + 2) = "#"
           /\ v >= 1
        THEN w + 3 + v
        ELSE 0

\* -{3,}|_{3,} (line 246).
RuleLen(s, i) ==
    IF SpanAt(s, i, {"-"}) >= 3 THEN SpanAt(s, i, {"-"})
    ELSE IF SpanAt(s, i, {"_"}) >= 3 THEN SpanAt(s, i, {"_"})
    ELSE 0

\* (?:(?<=^)|(?<=[.!?:]))\s*-\s+ (line 250).
PunctuationBulletLen(s, i) ==
    LET w == SpanAt(s, i, Whitespace)
        v == SpanAt(s, i + w + 1, Whitespace)
    IN  IF /\ At(s, i - 1) \in {"", ".", "!", "?", ":"}
           /\ At(s, i + w) = "-"
           /\ v >= 1
        THEN w + 1 + v
        ELSE 0

\* :\s*-\s+ (line 253).
ColonBulletLen(s, i) ==
    LET w == SpanAt(s, i + 1, Whitespace)
        v == SpanAt(s, i + w + 2, Whitespace)
    IN  IF At(s, i) = ":" /\ At(s, i + w + 1) = "-" /\ v >= 1
        THEN w + 2 + v
        ELSE 0

\* :(?!//)(?!\s*\n)\s* (line 257).
ColonBreakLen(s, i) ==
    LET w == SpanAt(s, i + 1, Whitespace)
    IN  IF /\ At(s, i) = ":"
           /\ ~(At(s, i + 1) = "/" /\ At(s, i + 2) = "/")
           /\ \A k \in (i + 1)..(i + w) : s[k] # NL
        THEN 1 + w
        ELSE 0

\* \s-\s+(?=[A-Za-z(]) (line 260).
InlineBulletLen(s, i) ==
    LET v == SpanAt(s, i + 2, Whitespace)
    IN  IF /\ At(s, i) \in Whitespace
           /\ At(s, i + 1) = "-"
           /\ v >= 1
           /\ At(s, i + 2 + v) \in Letter \cup {"("}
        THEN 2 + v
        ELSE 0

\* \n{3,} (line 340).
BlankLinesLen(s, i) ==
    IF SpanAt(s, i, {NL}) >= 3 THEN SpanAt(s, i, {NL}) ELSE 0

\* The patterns of lines 243-260 and 340, by the line of their re.sub.
MatchLen(pattern, s, i) ==
    CASE pattern = 243 -> HeadingLen(s, i)
      [] pattern = 246 -> RuleLen(s, i)
      [] pattern = 250 -> PunctuationBulletLen(s, i)
      [] pattern = 253 -> ColonBulletLen(s, i)
      [] pattern = 257 -> ColonBreakLen(s, i)
      [] pattern = 260 -> InlineBulletLen(s, i)
      [] pattern = 340 -> BlankLinesLen(s, i)

\* re.sub(pattern, repl, s) for a constant repl: the matches are taken left
\* to right, each search starting where the last match ended.
RECURSIVE SubFrom(_, _, _, _)
SubFrom(pattern, repl, s, from) ==
    LET i == First(from, Len(s), LAMBDA k : MatchLen(pattern, s, k) > 0)
    IN  IF i = 0 THEN SubSeq(s, from, Len(s))
        ELSE SubSeq(s, from, i - 1) \o repl
             \o SubFrom(pattern, repl, s, i + MatchLen(pattern, s, i))

Sub(pattern, repl, s) == SubFrom(pattern, repl, s, 1)

\* Line 243.
SpaceHeadings(s) == Sub(243, <<NL, NL, "#", "#", "#", " ">>, s)

\* Line 246.
RulesToBlank(s) == Sub(246, <<NL, NL>>, s)

\* Line 249.
NormalizeDashes(s) == [i \in 1..Len(s) |-> IF s[i] \in {EmDash, EnDash} THEN "-" ELSE s[i]]

\* Line 250.
BulletsAfterPunctuation(s) == Sub(250, <<NL, "-", " ">>, s)

\* Line 253.
ColonBullets(s) == Sub(253, <<":", NL, NL, "-", " ">>, s)

\* Line 257.
ColonBreaks(s) == Sub(257, <<":", NL, NL>>, s)

\* Line 260.
InlineBullets(s) == Sub(260, <<NL, "-", " ">>, s)

\* Line 263.
DropEmphasis(s) == SelectSeq(s, LAMBDA c : c \notin {"*", "_", Backtick})

\* Lines 243-263.
Rewrite(c) ==
    DropEmphasis(InlineBullets(ColonBreaks(ColonBullets(
        BulletsAfterPunctuation(NormalizeDashes(RulesToBlank(SpaceHeadings(c))))))))

\* Line 269: re.match(r"^\s*#{1,6}\s+(.*)$", raw), and the title of line 271.
HashesAt(raw_line) == Span(Drop(raw_line, Span(raw_line, Whitespace)), {"#"})

IsHeading(raw_line) ==
    /\ HashesAt(raw_line) \in 1..6
    /\ Span(Drop(raw_line, Span(raw_line, Whitespace) + HashesAt(raw_line)), Whitespace) >= 1

HeadingTitle(raw_line) == Strip(Drop(raw_line, Span(raw_line, Whitespace) + HashesAt(raw_line)))

Last(xs) == xs[Len(xs)]

\* Lines 267-277.
RECURSIVE PromoteHeadings(_, _)
PromoteHeadings(raw_lines, lines) ==
    IF raw_lines = <<>> THEN lines
    ELSE IF IsHeading(Head(raw_lines))
         THEN PromoteHeadings(Tail(raw_lines),
                  (IF lines # <<>> /\ Last(lines) # <<>> THEN Append(lines, <<>>) ELSE lines)
                  \o <<HeadingTitle(Head(raw_lines)), <<>>>>)
         ELSE PromoteHeadings(Tail(raw_lines), Append(lines, Head(raw_lines)))

\* Line 293: re.split(r"(?<=[.!?])\s+(?=(?:\(|\"|[A-Z0-9]))", line).
RECURSIVE SentenceSplit(_)
SentenceSplit(s) ==
    LET cuts == {i \in 2..Len(s) :
                    /\ s[i] \in Whitespace
                    /\ s[i - 1] \in {".", "!", "?"}
                    /\ LET w == Span(Drop(s, i - 1), Whitespace)
                       IN  /\ Len(s) >= i + w
                           /\ s[i + w] \in {"(", "\""} \cup Digit
                                           \cup {UpperCase[k] : k \in 1..26}}
    IN  IF cuts = {} THEN <<s>>
        ELSE LET i == Min(cuts)
             IN  <<Take(s, i - 1)>>
                 \o SentenceSplit(Drop(s, i - 1 + Span(Drop(s, i - 1), Whitespace)))

\* Line 302: re.sub(r"^(\d+\.\s*)-\s*", r"\1", line).
DropDoublePrefix(line) ==
    LET d == Span(line, Digit)
        w == Span(Drop(line, d + 1), Whitespace)
        v == Span(Drop(line, d + 2 + w), Whitespace)
    IN  IF /\ d >= 1
           /\ Len(line) >= d + 2 + w
           /\ line[d + 1] = "."
           /\ line[d + 2 + w] = "-"
        THEN Take(line, d + 1 + w) \o Drop(line, d + 2 + w + v)
        ELSE line

\* Lines 307 and 330: re.match(r"^\d+\.\s", line).
IsNumberedLine(line) ==
    LET d == Span(line, Digit)
    IN  d >= 1 /\ Len(line) >= d + 2 /\ line[d + 1] = "." /\ line[d + 2] \in Whitespace

\* str(n) for n in 1..7.
DigitString(n) == <<(<<"0", "1", "2", "3", "4", "5", "6", "7", "8", "9">>)[n + 1]>>

\* Line 313.
IsBulletLine(line) ==
    \/ StartsWith(line, <<"-", " ">>)
    \/ StartsWith(line, <<"*", " ">>)
    \/ StartsWith(line, <<BulletDot, " ">>)

\* Line 292: the length above which a line is reflowed.
ReflowLength == 160

\* The number of questions that are numbered (line 310).
NumberedQuestions == 7

\* A loop that reflows no line.
IsReflowedNever(line) == FALSE

\* Line 292: whether the line is reflowed instead of being laid out.
IsReflowed(line) == ~StartsWith(line, <<"-", " ">>) /\ Len(line) > ReflowLength

\* Lines 283-320: one turn of the loop, on the state (output_lines,
\* question_count, in_bullet_block).
LayOutLine(raw_line, st) ==
    LET line == Strip(raw_line)
        out == st.output_lines
        fixed == DropDoublePrefix(line)
        count == st.question_count + 1
    IN  IF line = <<>>
        THEN [st EXCEPT !.output_lines =
                            IF out # <<>> /\ Last(out) # <<>> THEN Append(out, <<>>)
                            ELSE out,
                        !.in_bullet_block = FALSE]
        ELSE IF IsReflowed(line)
        THEN [st EXCEPT !.output_lines =
                            out \o Map(SelectSeq(SentenceSplit(line), LAMBDA p : p # <<>>),
                                       Strip)
                                \o <<<<>>>>,
                        !.in_bullet_block = FALSE]
        ELSE IF EndsWith(fixed, <<"?">>)
        THEN [output_lines |->
                  Append(out, IF IsNumberedLine(fixed) THEN fixed
                              ELSE IF count <= NumberedQuestions
                                   THEN DigitString(count) \o <<".", " ">> \o fixed
                                   ELSE <<"-", " ">> \o fixed),
              question_count |-> count,
              in_bullet_block |-> FALSE]
        ELSE IF IsBulletLine(fixed)
        THEN [st EXCEPT !.output_lines =
                            (IF ~st.in_bullet_block /\ out # <<>> /\ Last(out) # <<>>
                             THEN Append(out, <<>>) ELSE out)
                            \o <<<<"-", " ">>
                                 \o Strip(LStripSet(fixed, {"-", "*", BulletDot, " "}))>>,
                        !.in_bullet_block = TRUE]
        ELSE [st EXCEPT !.output_lines = Append(out, fixed),
                        !.in_bullet_block = FALSE]

RECURSIVE LayOut(_, _)
LayOut(lines, st) ==
    IF lines = <<>> THEN st.output_lines
    ELSE LayOut(Tail(lines), LayOutLine(Head(lines), st))

\* Lines 324-336.
Spaced(output_lines) ==
    Concat([idx \in 1..Len(output_lines) |->
        LET line == output_lines[idx]
            nxt == IF idx < Len(output_lines) THEN output_lines[idx + 1] ELSE <<>>
        IN  IF /\ line # <<>>
               /\ ~StartsWith(line, <<"-", " ">>)
               /\ ~IsNumberedLine(line)
               /\ Last(line) \in {".", "?", "!"}
               /\ Strip(nxt) # <<>>
            THEN <<line, <<>>>>
            ELSE <<line>>])

\* Line 340.
CollapseBlankLines(s) == Sub(340, <<NL, NL>>, s)

\* Lines 266-340.
Restructure(c) ==
    LET lines == PromoteHeadings(Split(Strip(c), NL), <<>>)
        output_lines == LayOut(lines, [output_lines |-> <<>>,
                                       question_count |-> 0,
                                       in_bullet_block |-> FALSE])
    IN  Strip(CollapseBlankLines(Join(Spaced(output_lines), <<NL>>)))

\* Line 343: the closing call to action.
CallToAction ==
    <<NL, NL, "N", "e", "x", "t", " ", "S", "t", "e", "p", ":", " ", "R", "e",
      "f", "l", "e", "c", "t", " ", "o", "n", " ", "t", "h", "e", " ", "a",
      "b", "o", "v", "e", " ", "q", "u", "e", "s", "t", "i", "o", "n", "s",
      " ", "a", "n", "d", " ", "s", "h", "a", "r", "e", " ", "y", "o", "u",
      "r", " ", "t", "h", "o", "u", "g", "h", "t", "s", " ", "o", "n", " ",
      "t", "h", "e", " ", "m", "o", "s", "t", " ", "c", "h", "a", "l", "l",
      "e", "n", "g", "i", "n", "g", " ", "o", "n", "e", ".">>

\* A variant of line 342 that compares without lower().
HasClosingExact(t) ==
    Contains(t, <<"n", "e", "x", "t", " ", "s", "t", "e", "p">>) \/ Contains(t, <<"a", "c", "t", "i", "o", "n", " ", "i", "t", "e", "m">>)

\* Line 342.
HasClosing(t) ==
    Contains(Lower(t), <<"n", "e", "x", "t", " ", "s", "t", "e", "p">>) \/ Contains(Lower(t), <<"a", "c", "t", "i", "o", "n", " ", "i", "t", "e", "m">>)

\* Lines 342-343.
AppendCallToAction(t) == IF ~HasClosing(t) THEN t \o CallToAction ELSE t

\* Lines 322 and 345.
WithHeader(t, agent) ==
    <<IF agent = "pm" THEN Rocket ELSE MoneyBag>> \o <<" ", "R", "e", "s", "p", "o", "n", "s", "e", NL, NL>> \o t

----------------------------------------------------------------------------
\* format_response(content, agent_type) step by step.  raw is the argument
\* content, content the local of that name (text from line 339 on), ftodo
\* the stages still to run and fdone the stages that ran, in order.

AgentTypes == {"pm", "vc"}

\* The order the claim under C16 describes: the citation strategies and
\* the link conversion before the table flattener.
PipelineNormalizerFirst ==
    <<"perplexity", "citations", "links", "flatten", "clean_references",
      "rewrite", "layout", "call_to_action", "header">>

\* Lines 224-345: the stages of format_response in the order of the code
\* (225, 228, 231, 232, 240, 243-263, 266-340, 342-343, 345).
Pipeline ==
    <<"flatten", "clean_references", "perplexity", "citations", "links",
      "rewrite", "layout", "call_to_action", "header">>

\* Lines 231-240 on their own: the two citation strategies in the order of
\* format_response, then md_link_to_plain.
Normalizer == <<"perplexity", "citations", "links">>

\* The number of data rows of the tables the model is given.
MaxRows == 2

\* A table line: its cells between pipes.
TableLine(cells) ==
    <<"|", " ">> \o Join(cells, <<" ", "|", " ">>) \o <<" ", "|">>

\* The alignment line of a table of n columns.
RuleLine(n) == <<"|">> \o Concat([i \in 1..n |-> <<"-", "-", "-", "|">>])

\* The same line without the outer pipes.
BareTableLine(cells) == Join(cells, <<" ", "|", " ">>)

HeaderRows == {<<<<"A">>, <<"B">>>>, <<<<"K">>>>}

ValueCells == {<<"1">>, <<"2">>}

\* The tables whose rows have as many cells as the header, with or without
\* the alignment line (which takes two columns at least, line 154).
Tables ==
    UNION {{[header |-> h, rows |-> rs, ruled |-> r] :
               rs \in UNION {[1..k -> [1..Len(h) -> ValueCells]] : k \in 1..MaxRows},
               r \in IF Len(h) >= 2 THEN BOOLEAN ELSE {FALSE}} :
           h \in HeaderRows}

TableText(t) ==
    Join(<<TableLine(t.header)>>
         \o (IF t.ruled THEN <<RuleLine(Len(t.header))>> ELSE <<>>)
         \o [i \in 1..Len(t.rows) |-> TableLine(t.rows[i])],
         <<NL>>)

BareTableText(t) ==
    Join(<<BareTableLine(t.header)>>
         \o [i \in 1..Len(t.rows) |-> BareTableLine(t.rows[i])],
         <<NL>>)

\* What the model answers, before any reference list.
Bodies ==
    {<<"s", "e", "e", " ", "[", "1", ",", " ", "3", "]", " ", "o", "r", " ",
       "[", "4", "]", ".">>,
     <<"[", "1", "]", " ", "f", "a", "c", "t", ".">>,
     <<"f", "a", "c", "t", " ", "[", "1", "]", "[", "2", "]", ",", " ", "[",
       "3", "]", ".">>,
     <<"h", "e", "l", "l", "o">>,
     <<"n", "e", "x", "t", NL, "s", "t", "e", "p">>,
     <<"N", "e", "x", "t", " ", "S", "t", "e", "p", ":", " ", "g", "o">>,
     <<"a", "n", " ", "A", "c", "t", "i", "o", "n", " ", "I", "t", "e", "m">>,
     <<"A", " ", "|", " ", "B", " ", "|", " ", "C", NL, "1", " ", "|", " ", "2",
       " ", "|", " ", "3">>,
     <<"|", " ", "K", " ", "|", NL, "|", "-", "-", "-", "|", NL, "|", " ", "1",
       " ", "|">>,
     <<"|", " ", "A", " ", "|", " ", "B", " ", "|", NL, "|", " ", "1", " ", "|",
       " ", " ", "|">>,
     <<"|", " ", "A", " ", "|", " ", "B", " ", "|", NL, "|", " ", "1", " ", "|",
       " ", "2", " ", "|", " ", "3", " ", "|">>,
     <<"W", "h", "y", "?", " ", "H", "o", "w", "?", NL, "-", " ", "a", NL, "*",
       " ", "b">>,
     <<"s", "e", "e", " ", "[", "T", "]", "(", "h", "t", "t", "p", ":", "/",
       "/", "y", ".", "z", ")", ":", " ", "o", "k">>,
     <<"#", "#", "#", " ", "P", "l", "a", "n", " ", "-", "-", "-", " ", "a",
       ":", " ", "-", " ", "b", "_", "c">>}

\* The reference lists a response may end with.
Blocks ==
    {<<>>,
     <<NL, NL, "S", "o", "u", "r", "c", "e", "s", ":", NL, "1", ".", " ", "T",
       "i", "t", "l", "e", " ", "-", " ", "h", "t", "t", "p", ":", "/",
       "/", "x", ".", "c", "o", "m">>,
     <<NL, NL, "R", "e", "f", "e", "r", "e", "n", "c", "e", "s", ":", NL, "[",
       "1", "]", " ", "T", "i", "t", "l", "e", " ", "-", " ", "h", "t",
       "t", "p", ":", "/", "/", "x", ".", "c", "o", "m">>,
     <<NL, NL, "S", "o", "u", "r", "c", "e", "s", ":", NL, "1", ".", " ", "h",
       "t", "t", "p", ":", "/", "/", "x", ".", "c", "o", "m">>,
     <<NL, "S", "o", "u", "r", "c", "e", "s", ":", NL, "N", "e", "x", "t", " ",
       "S", "t", "e", "p">>}

\* Answers made of questions, which the rewriting of line 246 puts on lines
\* of their own: nine short ones, and one in a line of more than 160
\* characters followed by a short one.
LongLine ==
    <<"S", "o", " ">>
    \o Concat([i \in 1..31 |-> <<"v", "e", "r", "y", " ">>])
    \o <<"l", "o", "n", "g", ".", " ", "I", "s", " ", "i", "t", "?">>

QuestionTexts ==
    {<<"a", "?", "-", "-", "-", "b", "?", "-", "-", "-", "3", ".", " ", "c",
       "?", "-", "-", "-", "4", ".", " ", "-", "d", "?", "-", "-", "-",
       "e", "?", "-", "-", "-", "f", "?", "-", "-", "-", "g", "?", "-",
       "-", "-", "h", "?", "-", "-", "-", "i", "?">>,
     LongLine \o <<"-", "-", "-", "W", "h", "y", "?">>}

\* The texts format_response is called with.
RawTexts ==
    {b \o k : b \in Bodies, k \in Blocks}
    \cup QuestionTexts
    \cup {TableText(t) : t \in Tables}
    \cup {BareTableText(t) : t \in {x \in Tables : Len(x.header) >= 2}}

\* Line 216: the call.
InitFormat ==
    /\ raw \in RawTexts
    /\ agent_type \in AgentTypes
    /\ content = raw
    /\ fdone = <<>>
    /\ ftodo = Pipeline

\* Lines 231-240 called on a text directly.
InitNormalize ==
    /\ raw \in RawTexts
    /\ agent_type \in AgentTypes
    /\ content = raw
    /\ fdone = <<>>
    /\ ftodo = Normalizer

\* One stage: it is the next to run, and content becomes its result.
Stage(name, result) ==
    /\ ftodo # <<>>
    /\ Head(ftodo) = name
    /\ content' = result
    /\ fdone' = Append(fdone, name)
    /\ ftodo' = Tail(ftodo)
    /\ UNCHANGED <<raw, agent_type, rlvars, hvars, cvars, evars, dvars>>

\* Line 225.
FlattenTables == Stage("flatten", flatten_markdown_tables(content))

\* Line 228.
CleanReferences == Stage("clean_references", clean_references(content))

\* Line 231.
ParseCitations == Stage("perplexity", parse_perplexity_citations(content))

\* Line 232.
ExtractCitations == Stage("citations", extract_and_format_citations(content))

\* Lines 235-240.
PlainLinks == Stage("links", LinksToPlain(content))

\* Lines 243-263.
RewriteMarkup == Stage("rewrite", Rewrite(content))

\* Lines 266-340.
LayOutLines == Stage("layout", Restructure(content))

\* Lines 342-343.
AppendClosing == Stage("call_to_action", AppendCallToAction(content))

\* Lines 322 and 345.
AddHeader == Stage("header", WithHeader(content, agent_type))

NextFormat ==
    \/ FlattenTables
    \/ CleanReferences
    \/ ParseCitations
    \/ ExtractCitations
    \/ PlainLinks
    \/ RewriteMarkup
    \/ LayOutLines
    \/ AppendClosing
    \/ AddHeader

NextNormalize == ParseCitations \/ ExtractCitations \/ PlainLinks

\* The limiter, the handlers, the chunker and the escaper idle while a text
\* is formatted.
InitFormatter ==
    /\ max_requests = 1
    /\ window = SecPerMin
    /\ requests = <<>>
    /\ now = 0
    /\ call = NoCall
    /\ log = [k \in UserKeys |-> <<>>]
    /\ IdleHandlers
    /\ IdleChunker
    /\ IdleEscaper
    /\ IdleScripts
    /\ IdleStore
    /\ IdlePersona
    /\ InitFormat

SpecFormat == InitFormatter /\ [][NextFormat]_vars

InitNormalizer ==
    /\ max_requests = 1
    /\ window = SecPerMin
    /\ requests = <<>>
    /\ now = 0
    /\ call = NoCall
    /\ log = [k \in UserKeys |-> <<>>]
    /\ IdleHandlers
    /\ IdleChunker
    /\ IdleEscaper
    /\ IdleScripts
    /\ IdleStore
    /\ IdlePersona
    /\ InitNormalize

SpecNormalize == InitNormalizer /\ [][NextNormalize]_vars

----------------------------------------------------------------------------
\* One update through handle_message with the response of the model:
\* get_response (lines 347-395 of agents.py) hands the completion to
\* format_response, whose result handle_message sends.

\* The default limit of split_into_chunks (utils.py line 83).
ChunkLimit == 3900

\* Lines 83-101 of utils.py: split_into_chunks(text, limit) for a limit of
\* one at least.
RECURSIVE SplitIntoChunks(_, _)
SplitIntoChunks(rem, lim) ==
    IF rem = <<>> THEN <<>>
    ELSE IF Len(rem) <= lim THEN <<rem>>
    ELSE <<SubSeq(rem, 1, SplitAt(rem, lim))>>
         \o SplitIntoChunks(LStrip(SubSeq(rem, SplitAt(rem, lim) + 1, Len(rem)), NL), lim)

\* The completions the model answers with.
Completions ==
    {<<"N", "e", "x", "t", " ", "s", "t", "e", "p", ":", " ", "s", "h", "i",
       "p", " ", "i", "t", ".">>,
     <<"n", "e", "x", "t", " ", "s", "t", "e", "p">>,
     <<"<", "b", ">", "A", "c", "t", "i", "o", "n", " ", "i", "t", "e", "m",
       "<", "/", "b", ">", " ", "-", " ", "c", "a", "l", "l", " ", "B",
       "o", "b">>,
     <<"N", "e", "x", "t", " ", "S", "t", "e", "p", ":", " ", "a", "_", "b",
       " ", "<", "i", ">", "n", "o", "w", "<", "/", "i", ">">>}

\* Lines 390-393: the call of the model returns and format_response is
\* called with the content and the agent type of the user.  format_response
\* does not suspend, so no other handler resumes from the model while one
\* is formatting.
get_response(t) ==
    /\ pc[t] = "await_model"
    /\ \A s \in Tasks : pc[s] # "format_response"
    /\ reply.kind = "content"
    /\ raw' = reply.content
    /\ content' = reply.content
    /\ agent_type' \in AgentTypes
    /\ fdone' = <<>>
    /\ ftodo' = Pipeline
    /\ Goto(t, "format_response")
    /\ UNCHANGED <<rlvars, task_user, task_rl, effects, svars, cvars, evars, dvars>>

\* Two updates arrive one after the other; the limiter is configured to
\* let none or one of them through per window.
SendTasks == {t \in Tasks : t <= 2}

InitSend ==
    /\ max_requests \in 0..1
    /\ window = SecPerMin
    /\ requests = <<>>
    /\ now = 0
    /\ call = NoCall
    /\ log = [k \in UserKeys |-> <<>>]
    /\ IdleTasks
    /\ reply \in {[kind |-> "content", content |-> c, error |-> ""] : c \in Completions}
    /\ IdleFormatter
    /\ IdleChunker
    /\ IdleEscaper
    /\ IdleScripts
    /\ IdleStore
    /\ IdlePersona

NextSend ==
    \/ \E t \in SendTasks : handle_message(t)
    \/ \E t \in SendTasks : get_response(t)
    \/ NextFormat
    \/ TickBeforeArrival

SpecSend == InitSend /\ [][NextSend]_vars

----------------------------------------------------------------------------
----------------------------------------------------------------------------
----------------------------------------------------------------------------
\* split_into_chunks(escape_md_v2(t), limit): the chunker of lines 83-101
\* called on what the escaper of lines 64-80 returned, with a limit of two
\* characters at least.
ChunkEscaped ==
    /\ estate = "done"
    /\ cstate = "done"
    /\ text = <<>>
    /\ chunks = <<>>
    /\ eresult # <<>>
    /\ text' = eresult
    /\ limit' \in 2..MaxLimit
    /\ remaining' = eresult
    /\ chunks' = <<>>
    /\ cstate' = "loop"
    /\ UNCHANGED <<rlvars, hvars, evars, dvars, fvars>>

NextEscapeChunk == Escape \/ ChunkEscaped \/ NextChunk

SpecEscapeChunk == InitEscaper /\ [][NextEscapeChunk]_vars

\* scripts/export_user_queries.py, _fetch_in_pages (lines 37-69), and the
\* same loop in scripts/export_user_qna.py, _fetch_qna_pages (lines 45-58
\* and 62-75).  A row is its position in the table (its id) and its
\* created_at; the table does not change while the script runs.

\* The tables the script may read.
TableContents ==
    UNION {[1..n -> 1..MaxStamp] : n \in 0..MaxTableRows}

Row(i) == [id |-> i, created_at |-> table[i]]

\* Lines 59-60: the rows the filter lets through.
Filtered(last) ==
    {i \in 1..Len(table) : last = 0 \/ table[i] > last}

\* Line 62: order("created_at", desc=False) puts the rows in ascending
\* order of created_at; rows of the same created_at come in any order.
Ordered(S) ==
    {q \in [1..Cardinality(S) -> S] :
        /\ \A i, j \in 1..Cardinality(S) : i < j => q[i] # q[j]
        /\ \A i, j \in 1..Cardinality(S) : i < j => table[q[i]] <= table[q[j]]}

\* Line 62: limit(page_size).
Limited(q, n) == SubSeq(q, 1, IF Len(q) < n THEN Len(q) ELSE n)

\* Line 42 and the arguments.
InitFetch ==
    /\ table \in TableContents
    /\ page_size \in 1..MaxPageSize
    /\ last_created_at = 0
    /\ pages = <<>>
    /\ fetch_state = "loop"

\* Lines 45-69: one turn of the loop: the query, the break on an empty page,
\* else the cursor moves to the created_at of the last row and the page is
\* yielded.
fetch_in_pages ==
    /\ fetch_state = "loop"
    /\ \E q \in Ordered(Filtered(last_created_at)) :
         LET rows == Limited(q, page_size)
         IN  IF rows = <<>>
             THEN /\ fetch_state' = "done"
                  /\ UNCHANGED <<last_created_at, pages>>
             ELSE /\ last_created_at' = table[rows[Len(rows)]]
                  /\ pages' = Append(pages, [i \in 1..Len(rows) |-> Row(rows[i])])
                  /\ fetch_state' = "loop"
    /\ UNCHANGED <<table, page_size, cnvars, psvars, rlvars, hvars, cvars, evars, fvars>>

NextFetch == fetch_in_pages

InitFetcher ==
    /\ max_requests = 1
    /\ window = SecPerMin
    /\ requests = <<>>
    /\ now = 0
    /\ call = NoCall
    /\ log = [k \in UserKeys |-> <<>>]
    /\ IdleHandlers
    /\ IdleChunker
    /\ IdleEscaper
    /\ IdleFormatter
    /\ IdleStore
    /\ IdlePersona
    /\ InitFetch

SpecFetch == InitFetcher /\ [][NextFetch]_vars

----------------------------------------------------------------------------
\* The conversation of one user with one agent: what handle_message stores
\* (handlers.py lines 286-332, database.py lines 24-78) and what
\* get_response sends to the model (agents.py lines 357-377).  The k-th
\* update of the user carries the message k; the answer to it is stored as
\* the assistant row k.

\* database.py lines 63-75: the last n rows in chronological order.
LastRows(rows, n) ==
    SubSeq(rows, IF Len(rows) > n THEN Len(rows) - n + 1 ELSE 1, Len(rows))

\* What get_conversation_history returns: the last ten rows, or the empty
\* list of its except branch (line 78).
get_conversation_history(rows) == {LastRows(rows, 10), <<>>}

\* handlers.py lines 308-312: the message handed to get_response, with the
\* continuity prefix or without.
Contextualized(k, prefixed) == [says |-> k, continuity |-> prefixed]

\* agents.py lines 359-377: the system prompt, the last ten messages of the
\* history, the current message.
FormattedMessages(history, user_message) ==
    <<[role |-> "system", content |-> Contextualized(0, FALSE)]>>
    \o [i \in 1..Len(LastRows(history, 10)) |->
           [role |-> LastRows(history, 10)[i].role,
            content |-> Contextualized(LastRows(history, 10)[i].message, FALSE)]]
    \o <<[role |-> "user", content |-> user_message]>>

\* The store is empty when the first update arrives.
InitConversation ==
    /\ conversations = <<>>
    /\ turn = 0
    /\ hstate = "idle"
    /\ formatted_messages = <<>>

\* handlers.py lines 286-294: an update arrives and its user turn is
\* saved; if save_message raises, the handler leaves for its except branch.
SaveUserTurn ==
    /\ hstate = "idle"
    /\ turn < MaxTurns
    /\ turn' = turn + 1
    /\ \/ /\ conversations' = Append(conversations, [role |-> "user", message |-> turn + 1])
          /\ hstate' = "saved"
       \/ /\ UNCHANGED conversations
          /\ hstate' = "idle"
    /\ UNCHANGED <<formatted_messages, pgvars, psvars, rlvars, hvars, cvars, evars, fvars>>

\* handlers.py lines 296-321 and agents.py lines 357-377: the history is
\* read, the continuity prefix is set when the history holds more than
\* four rows and names a topic, and the list for the model is built.
AskModel ==
    /\ hstate = "saved"
    /\ \E history \in get_conversation_history(conversations) :
         \E prefixed \in IF Len(history) > 4 THEN BOOLEAN ELSE {FALSE} :
             formatted_messages' = FormattedMessages(history, Contextualized(turn, prefixed))
    /\ hstate' = "asked"
    /\ UNCHANGED <<conversations, turn, pgvars, psvars, rlvars, hvars, cvars, evars, fvars>>

\* handlers.py lines 324-332: the answer is saved, or save_message raises.
SaveAssistantTurn ==
    /\ hstate = "asked"
    /\ \/ conversations' = Append(conversations, [role |-> "assistant", message |-> turn])
       \/ UNCHANGED conversations
    /\ hstate' = "idle"
    /\ UNCHANGED <<turn, formatted_messages, pgvars, psvars, rlvars, hvars, cvars, evars, fvars>>

NextConversation == SaveUserTurn \/ AskModel \/ SaveAssistantTurn

InitConversations ==
    /\ max_requests = 1
    /\ window = SecPerMin
    /\ requests = <<>>
    /\ now = 0
    /\ call = NoCall
    /\ log = [k \in UserKeys |-> <<>>]
    /\ IdleHandlers
    /\ IdleChunker
    /\ IdleEscaper
    /\ IdleFormatter
    /\ IdlePager
    /\ IdlePersona
    /\ InitConversation

SpecConversation == InitConversations /\ [][NextConversation]_vars

----------------------------------------------------------------------------
\* The persona of one user: /start, the advisor buttons, /pm and /vc.  The
\* table user_sessions holds current_agent, context.user_data holds
\* agent_type.

\* Lines 88-100 of database.py: the upsert leaves one row for the user; when
\* it raises the error is logged and the table is as before.
update_user_session(rows, agent, ok) ==
    IF ok THEN {[current_agent |-> agent]} ELSE rows

\* Lines 28-40 of handlers.py: one row more in bot_analytics, or none when
\* the insert raises.
log_analytics(rows, action, agent, ok) ==
    IF ok THEN Append(rows, [action |-> action, agent_type |-> agent]) ELSE rows

\* context.user_data.get("agent_type", "pm"), lines 278 and 462.
AgentTypeOf(data) ==
    IF "agent_type" \in DOMAIN data THEN data["agent_type"] ELSE "pm"

\* Line 193: query.data.replace("select_", "").
AgentOfCallback(data) ==
    CASE data = "select_pm" -> "pm"
      [] data = "select_vc" -> "vc"

\* Lines 119-181: the welcome message is sent, the session is written with
\* the default "pm" and bot_started is logged; context.user_data is not
\* touched.
start ==
    /\ Len(handled) < MaxCommands
    /\ \E session_ok, log_ok \in BOOLEAN :
          /\ user_sessions' = update_user_session(user_sessions, "pm", session_ok)
          /\ bot_analytics' = log_analytics(bot_analytics, "bot_started", "", log_ok)
          /\ db_errors' = (db_errors \/ ~session_ok \/ ~log_ok)
    /\ handled' = Append(handled, "/start")
    /\ UNCHANGED <<user_data, pgvars, cnvars, rlvars, hvars, cvars, evars, fvars>>

\* Lines 183-214: the session is written with the advisor of the button,
\* the advisor is stored in context.user_data and agent_selected is logged.
handle_agent_selection(data) ==
    /\ Len(handled) < MaxCommands
    /\ LET agent == AgentOfCallback(data)
       IN  /\ \E session_ok, log_ok \in BOOLEAN :
                 /\ user_sessions' = update_user_session(user_sessions, agent, session_ok)
                 /\ bot_analytics' = log_analytics(bot_analytics, "agent_selected", agent, log_ok)
                 /\ db_errors' = (db_errors \/ ~session_ok \/ ~log_ok)
           /\ user_data' = [agent_type |-> agent]
    /\ handled' = Append(handled, data)
    /\ UNCHANGED <<pgvars, cnvars, rlvars, hvars, cvars, evars, fvars>>

\* Lines 420-453: the same for /pm and /vc, with agent_switched.
switch_agent(command, agent) ==
    /\ Len(handled) < MaxCommands
    /\ \E session_ok, log_ok \in BOOLEAN :
          /\ user_sessions' = update_user_session(user_sessions, agent, session_ok)
          /\ bot_analytics' = log_analytics(bot_analytics, "agent_switched", agent, log_ok)
          /\ db_errors' = (db_errors \/ ~session_ok \/ ~log_ok)
    /\ user_data' = [agent_type |-> agent]
    /\ handled' = Append(handled, command)
    /\ UNCHANGED <<pgvars, cnvars, rlvars, hvars, cvars, evars, fvars>>

\* Lines 404-418.
switch_to_pm == switch_agent("/pm", "pm")

switch_to_vc == switch_agent("/vc", "vc")

NextPersona ==
    \/ start
    \/ \E data \in {"select_pm", "select_vc"} : handle_agent_selection(data)
    \/ switch_to_pm
    \/ switch_to_vc

InitPersona ==
    /\ max_requests = 1
    /\ window = SecPerMin
    /\ requests = <<>>
    /\ now = 0
    /\ call = NoCall
    /\ log = [k \in UserKeys |-> <<>>]
    /\ IdleHandlers
    /\ IdleChunker
    /\ IdleEscaper
    /\ IdleFormatter
    /\ IdlePager
    /\ IdleStore
    /\ IdlePersona

SpecPersona == InitPersona /\ [][NextPersona]_vars

----------------------------------------------------------------------------
\* Properties of the rate limiter.

\* The list the last call found, without the instants whose age had reached
\* the window.
Remaining == SelectSeq(call.before, LAMBDA r : ~(call.at - r >= window))

\* C1: after the purge, is_allowed rejects exactly when the number of
\* remaining instants is at or above max_requests; a rejected call returns
\* (False, non-empty message) and leaves the purged list; an accepted call
\* appends the current instant and returns (True, "").
C1_IsAllowedContract ==
    call.kind # "none" =>
        /\ call.kind = "return"
        /\ call.allowed <=> ~(Len(Remaining) >= max_requests)
        /\ ~call.allowed =>
              /\ call.message # <<>>
              /\ requests[call.uid] = Remaining
        /\ call.allowed =>
              /\ call.message = <<>>
              /\ requests[call.uid] = Append(Remaining, call.at)

C1_Witness ==
    /\ call.kind = "return"
    /\ ~call.allowed
    /\ \E k \in DOMAIN requests : k # call.uid /\ requests[k] # <<>>

\* C2: every user's stored list of instants has length at most max_requests.
C2_ListBounded ==
    \A k \in DOMAIN requests : Len(requests[k]) <= max_requests

C2_Witness ==
    \E k \in DOMAIN requests :
        /\ Len(requests[k]) = max_requests
        /\ \E i \in 1..Len(log[k]) : log[k][i].res = "rejected"

\* The calls of user k before its i-th call that fall within one window of it.
CallsWithin(k, i) ==
    {j \in 1..(i - 1) : log[k][i].at - log[k][j].at < window}

AcceptedWithin(k, i) ==
    {j \in CallsWithin(k, i) : log[k][j].res = "accepted"}

\* C3: for each user, a call preceded by fewer than max_requests calls inside
\* its window is allowed; a call preceded by max_requests accepted calls
\* inside its window is rejected; a call made once the window has elapsed
\* since every accepted request is allowed again.
C3_WindowSequence ==
    \A k \in UserKeys : \A i \in 1..Len(log[k]) :
        /\ Cardinality(CallsWithin(k, i)) < max_requests
              => log[k][i].res = "accepted"
        /\ Cardinality(AcceptedWithin(k, i)) >= max_requests
              => log[k][i].res = "rejected"
        /\ (\A j \in 1..(i - 1) :
                log[k][j].res = "accepted" => log[k][i].at - log[k][j].at >= window)
              => log[k][i].res = "accepted"

\* The instance max_requests = 2, window = 60 s: [true, true, false] within
\* the window, then true after it.
C3_Witness ==
    /\ max_requests = 2
    /\ window = 60
    /\ \E k \in UserKeys :
        /\ Len(log[k]) >= 4
        /\ log[k][1].res = "accepted"
        /\ log[k][2].res = "accepted"
        /\ log[k][3].res = "rejected"
        /\ log[k][3].at - log[k][1].at < window
        /\ log[k][4].res = "accepted"
        /\ log[k][4].at - log[k][2].at >= window

\* The accepted calls of user k whose instant lies in (t - window, t].
AcceptedIn(k, t) ==
    {i \in 1..Len(log[k]) :
        /\ log[k][i].res = "accepted"
        /\ t - window < log[k][i].at
        /\ log[k][i].at <= t}

\* C4: for every user and every interval (t - window, t], at most
\* max_requests calls were accepted with an instant inside the interval.
C4_SlidingWindow ==
    \A k \in UserKeys : \A t \in 0..MaxTime :
        Cardinality(AcceptedIn(k, t)) <= max_requests

\* A full window that straddles two accepting phases: an instant was purged
\* and the interval still holds max_requests accepted calls.
C4_Witness ==
    \E k \in UserKeys : \E t \in 0..MaxTime :
        /\ Cardinality(AcceptedIn(k, t)) = max_requests
        /\ \E i \in 1..Len(log[k]) :
              log[k][i].res = "accepted" /\ log[k][i].at <= t - window
        /\ \E i \in 1..Len(log[k]) : log[k][i].res = "rejected"

\* What the last call left of the list it found (its own instant set aside).
HeldAfterPurge ==
    LET after == requests[call.uid]
    IN  IF call.kind = "return" /\ call.allowed
        THEN SubSeq(after, 1, Len(after) - 1)
        ELSE after

\* C5 as stated: the purge removes exactly the instants with now - t > window
\* and retains an instant whose age equals the window.
C5_PurgeKeepsBoundary ==
    call.kind # "none" =>
        HeldAfterPurge = SelectSeq(call.before, LAMBDA r : ~(call.at - r > window))

\* C5 amended: the purge removes exactly the instants whose age is at least
\* the window (now - t >= window) and retains, in order, every instant whose
\* age is below the window; an instant whose age equals the window is removed.
C5_PurgeDropsBoundary ==
    call.kind # "none" =>
        /\ HeldAfterPurge = Remaining
        /\ \A i \in 1..Len(call.before) :
              call.at - call.before[i] = window =>
                  \A j \in 1..Len(HeldAfterPurge) :
                      HeldAfterPurge[j] # call.before[i]

C5_Witness ==
    /\ call.kind = "return"
    /\ window > 0
    /\ \E i \in 1..Len(call.before) : call.at - call.before[i] = window
    /\ \E i \in 1..Len(call.before) : call.at - call.before[i] < window

\* C6: is_allowed never raises, for every configuration with
\* max_requests >= 0 and window >= 0.
C6_NeverRaises == call.kind # "raise"

\* C7: a rejection reports floor((window - (now - oldest)) / 60) minutes,
\* oldest being the earliest instant held for the user, and the value lies
\* between 0 and the window length in minutes.
C7_WaitMinutes ==
    (call.kind = "return" /\ ~call.allowed) =>
        LET held == requests[call.uid]
            oldest == Min({held[i] : i \in 1..Len(held)})
            minutes == (window - (call.at - oldest)) \div SecPerMin
        IN  /\ call.message = RateLimitMessage(minutes)
            /\ 0 <= minutes
            /\ minutes <= window \div SecPerMin

\* A rejection whose wait is not a whole number of minutes, with two
\* different instants held.
C7_Witness ==
    /\ call.kind = "return"
    /\ ~call.allowed
    /\ LET held == requests[call.uid]
       IN  /\ Len(held) >= 2
           /\ held[1] # held[Len(held)]
           /\ (window - (call.at - held[1])) % SecPerMin # 0

----------------------------------------------------------------------------
\* Properties of handle_message.

\* C8: the limiter is consulted before anything else, and a rejected update
\* causes no save, no history read, no model call and no response: only the
\* notice is sent and, after it, log_analytics(rate_limited) is called.
C8_RateLimitGate ==
    \A t \in Tasks :
        /\ effects[t] # <<>> => task_rl[t].res # "none"
        /\ task_rl[t].res = "rejected" =>
              /\ effects[t] \in {<<>>, <<"fail:notice">>,
                                 <<"send:notice", "log:rate_limited">>}
              /\ pc[t] \in {"await_notice", "done", "failed"}
              /\ pc[t] = "done" =>
                    effects[t] = <<"send:notice", "log:rate_limited">>

\* A rejected update has been answered while an accepted one went through
\* the store and the model.
C8_Witness ==
    \E t, s \in Tasks :
        /\ task_rl[t].res = "rejected"
        /\ pc[t] = "done"
        /\ task_rl[s].res = "accepted"
        /\ \E i \in 1..Len(effects[s]) : effects[s][i] = "call:model"

\* The tasks of user u accepted with an instant in (x - window, x].
TasksAcceptedIn(u, x) ==
    {t \in Tasks :
        /\ task_user[t] = u
        /\ task_rl[t].res = "accepted"
        /\ x - window < task_rl[t].at
        /\ task_rl[t].at <= x}

\* C9: under every interleaving of the handle_message tasks at their
\* suspension points, the number of updates accepted for one user inside one
\* window never exceeds max_requests: the window that ends at the instant of
\* any accepted update holds at most max_requests accepted updates of its
\* user.
C9_ConcurrentLimit ==
    \A t \in Tasks :
        task_rl[t].res = "accepted" =>
            Cardinality(TasksAcceptedIn(task_user[t], task_rl[t].at)) <= max_requests

\* An update of a user is rejected while max_requests accepted updates of
\* the same user are still suspended inside the handler.
C9_Witness ==
    \E t \in Tasks :
        /\ task_rl[t].res = "rejected"
        /\ LET inflight == {s \in Tasks :
                               /\ task_user[s] = task_user[t]
                               /\ task_rl[s].res = "accepted"
                               /\ pc[s] \notin {"done", "failed"}
                               /\ task_rl[t].at - task_rl[s].at < window}
           IN  Cardinality(inflight) = max_requests

----------------------------------------------------------------------------
\* Properties of split_into_chunks.

\* C10: for limit >= 1, every chunk has length at most limit; the result of
\* a non-empty text has at least one chunk and the result of the empty text
\* is the empty list.
C10_ChunksWithinLimit ==
    limit >= 1 =>
        /\ \A i \in 1..Len(chunks) : Len(chunks[i]) <= limit
        /\ cstate = "done" => (text # <<>> => Len(chunks) >= 1)
        /\ cstate = "done" => (text = <<>> => chunks = <<>>)

\* A text longer than the limit, returned in several chunks, one of them cut
\* at a newline.
C10_Witness ==
    /\ cstate = "done"
    /\ limit >= 2
    /\ Len(text) > limit
    /\ Len(chunks) >= 2
    /\ \E i \in 1..(Len(chunks) - 1) : Len(chunks[i]) < limit

\* C11: split_into_chunks terminates for every text and every limit >= 0:
\* each loop iteration that finds a non-empty remainder longer than limit
\* leaves a remainder shorter by at least one character.
C11_SplitShortens ==
    [][(cstate = "loop" /\ remaining # <<>> /\ Len(remaining) > limit)
          => Len(remaining') < Len(remaining)]_vars

\* What the call has produced so far: the chunks, followed while the loop
\* runs by what is left to cut.
Pieces == IF cstate = "loop" THEN Append(chunks, remaining) ELSE chunks

\* t is the pieces cs in order with at most most newlines, and nothing
\* else, left out after each piece.
RECURSIVE Rebuilds(_, _, _)
Rebuilds(cs, t, most) ==
    IF cs = <<>> THEN t = <<>>
    ELSE LET c == Head(cs)
         IN  /\ Len(c) <= Len(t)
             /\ SubSeq(t, 1, Len(c)) = c
             /\ LET rest == SubSeq(t, Len(c) + 1, Len(t))
                IN  \E k \in 0..Min({most, Len(rest)}) :
                        /\ \A i \in 1..k : rest[i] = NL
                        /\ Rebuilds(Tail(cs), SubSeq(rest, k + 1, Len(rest)), most)

\* C12 as stated: for limit >= 1 the chunks in order reproduce the text
\* except for newlines removed at split points, at most one newline being
\* lost at each split point.
C12_OneNewlinePerSplit ==
    limit >= 1 => Rebuilds(Pieces, text, 1)

\* C12 amended: for limit >= 1 the chunks in order reproduce the text except
\* for the newlines removed at split points; no other character is lost,
\* duplicated or reordered, and at each split point every consecutive newline
\* at the cut is removed, however many, so that no chunk after the first
\* begins with a newline.
C12_ChunksRebuildText ==
    limit >= 1 =>
        /\ Rebuilds(Pieces, text, Len(text))
        /\ \A i \in 2..Len(Pieces) : Pieces[i] # <<>> => Pieces[i][1] # NL

\* Two newlines were dropped at one cut.
C12_Witness ==
    /\ cstate = "done"
    /\ limit >= 1
    /\ Len(chunks) = 2
    /\ Len(chunks[1]) + Len(chunks[2]) + 2 <= Len(text)
    /\ text[Len(text)] # NL

\* The 0-based positions of the newlines among the first limit characters of
\* a remainder longer than limit.
NewlinesInSlice == {i \in 0..(limit - 1) : remaining[i + 1] = NL}

\* C13: whenever the remainder is longer than limit, the cut index is the
\* position of the last newline among the first limit characters if that
\* position is at least limit / 2, and exactly limit otherwise; a remainder
\* that fits within limit is emitted unchanged as the final chunk.
C13_CutIndex ==
    [][
        /\ (cstate = "loop" /\ remaining # <<>> /\ Len(remaining) > limit) =>
              LET last == IF NewlinesInSlice = {} THEN -1 ELSE Max(NewlinesInSlice)
                  cut == IF last # -1 /\ 2 * last >= limit THEN last ELSE limit
              IN  chunks' = Append(chunks, SubSeq(remaining, 1, cut))
        /\ (cstate = "loop" /\ remaining # <<>> /\ Len(remaining) <= limit) =>
              (chunks' = Append(chunks, remaining) /\ cstate' = "done")
    ]_vars

\* A first chunk cut at exactly limit although it holds a newline (before
\* limit / 2), and a last chunk that fitted.
C13_Witness ==
    /\ cstate = "done"
    /\ limit >= 2
    /\ Len(chunks) >= 2
    /\ Len(chunks[1]) = limit
    /\ \E i \in 1..limit : chunks[1][i] = NL
    /\ chunks[Len(chunks)] = remaining

----------------------------------------------------------------------------
\* Properties of escape_md_v2.

\* Whether c is a reserved character or the backslash.
Reserved(c) ==
    c \in {"_", "*", "[", "]", "(", ")", "~", Backtick, ">", "#", "+", "-", "=",
           "|", "{", "}", ".", "!", "\\"}

\* Each character of t in order, a reserved one or a backslash preceded by
\* one backslash.
RECURSIVE PrefixedCopy(_)
PrefixedCopy(t) ==
    IF t = <<>> THEN <<>>
    ELSE (IF Reserved(Head(t)) THEN <<"\\", Head(t)>> ELSE <<Head(t)>>)
         \o PrefixedCopy(Tail(t))

Count(s, P(_)) == Cardinality({i \in 1..Len(s) : P(s[i])})

\* C14: escape_md_v2 outputs, for every input character in order, the
\* character preceded by exactly one backslash when it is reserved or a
\* backslash, and the character alone otherwise; the output length is the
\* input length plus the number of reserved characters and backslashes, and
\* newlines are preserved.
C14_EscapePrefixes ==
    estate = "done" =>
        /\ eresult = PrefixedCopy(etext)
        /\ Len(eresult) = Len(etext) + Count(etext, Reserved)
        /\ Count(eresult, LAMBDA c : c = NL) = Count(etext, LAMBDA c : c = NL)

\* A text with a backslash, a reserved character and a newline was escaped.
C14_Witness ==
    /\ estate = "done"
    /\ \E i, j, k \in 1..Len(etext) :
          etext[i] = "\\" /\ etext[j] \in Specials /\ etext[k] = NL
    /\ Len(eresult) = Len(etext) + 2

\* Scanning s left to right, each backslash-plus-character pair replaced by
\* the character alone.
RECURSIVE Unescape(_)
Unescape(s) ==
    IF s = <<>> THEN <<>>
    ELSE IF Head(s) = "\\" /\ Len(s) >= 2
         THEN <<s[2]>> \o Unescape(SubSeq(s, 3, Len(s)))
         ELSE <<Head(s)>> \o Unescape(Tail(s))

\* C15: removing the backslash escapes from escape_md_v2(text), scanning
\* left to right, yields the original text exactly.
C15_RoundTrip ==
    estate = "done" => Unescape(eresult) = etext

\* A text in which a backslash comes directly before a reserved character
\* and another backslash ends the text.
C15_Witness ==
    /\ estate = "done"
    /\ Len(etext) >= 3
    /\ etext[1] = "\\"
    /\ etext[2] \in Specials
    /\ etext[Len(etext)] = "\\"

----------------------------------------------------------------------------
\* The instants of times that have not expired at the instant t.
Unexpired(times, t) == SelectSeq(times, LAMBDA r : t - r < window)

\* C25: a rejected is_allowed(u) records nothing: afterwards the list of u
\* holds exactly the unexpired instants it held before the call and no
\* instant for the call, and the list of every other user is unchanged;
\* hence at every later instant the list of u holds what it would hold
\* without the call, and the rejected call does not postpone the instant
\* at which u is allowed again.
C25_RejectionRecordsNothing ==
    [][(log' # log /\ call'.kind = "return" /\ ~call'.allowed) =>
          LET u == call'.uid
              held == IF u \in DOMAIN requests THEN requests[u] ELSE <<>>
          IN  /\ DOMAIN requests' = DOMAIN requests \cup {u}
              /\ requests'[u] = Unexpired(held, now)
              /\ \A k \in DOMAIN requests \ {u} : requests'[k] = requests[k]
              /\ \A t \in now..(MaxTime + window) :
                     Unexpired(requests'[u], t) = Unexpired(held, t)]_vars

\* A user was rejected twice in a row while another user has instants on
\* record; the list of the rejected user is what it was before the call.
C25_Witness ==
    /\ call.kind = "return"
    /\ ~call.allowed
    /\ Len(log[call.uid]) >= 2
    /\ log[call.uid][Len(log[call.uid])].res = "rejected"
    /\ log[call.uid][Len(log[call.uid]) - 1].res = "rejected"
    /\ requests[call.uid] # <<>>
    /\ requests[call.uid] = call.before
    /\ \E k \in DOMAIN requests \ {call.uid} : requests[k] # <<>>

\* C26: for every text and every limit >= 1, split_into_chunks never emits
\* an empty chunk.
C26_NoEmptyChunk ==
    limit >= 1 => \A i \in 1..Len(chunks) : chunks[i] # <<>>

\* A text that starts with a newline and is longer than the limit has been
\* split: the newline at index 0 is below half the limit, so the cut was
\* made at the limit.
C26_Witness ==
    /\ cstate = "done"
    /\ limit >= 1
    /\ Len(text) > limit
    /\ text[1] = NL
    /\ Len(chunks) >= 2
    /\ Len(chunks[1]) = limit

\* Whether s is escaped by itself: every backslash is followed by the
\* character it escapes, and no reserved character stands without one.
RECURSIVE ValidlyEscaped(_)
ValidlyEscaped(s) ==
    IF s = <<>> THEN TRUE
    ELSE IF Head(s) = Backslash
         THEN /\ Len(s) >= 2
              /\ s[2] \in Specials \cup {Backslash}
              /\ ValidlyEscaped(SubSeq(s, 3, Len(s)))
         ELSE Head(s) \notin Specials /\ ValidlyEscaped(Tail(s))

\* C27 as stated: for every text t and every limit >= 2, no chunk of
\* split_into_chunks(escape_md_v2(t), limit) ends with an escaping
\* backslash whose escaped character starts the next chunk: every chunk is
\* validly escaped by itself.
C27_ChunksValidlyEscaped ==
    (estate = "done" /\ text = eresult /\ limit >= 2) =>
        \A i \in 1..Len(chunks) : ValidlyEscaped(chunks[i])

\* Properties of format_response.

\* The stages that ran before the i-th.
Before(i) == {fdone[j] : j \in 1..(i - 1)}

\* C16 as stated: the stages run in the order citation and reference
\* normalization, table flattening, structural reformatting; when the table
\* flattener runs, the two citation strategies and the link conversion
\* have run.
C16_NormalizerBeforeFlattener ==
    \A i \in 1..Len(fdone) :
        /\ fdone[i] = "flatten" => {"perplexity", "citations", "links"} \subseteq Before(i)
        /\ fdone[i] \in {"rewrite", "layout"} => "flatten" \in Before(i)

\* C16, amended: the stages run in the order table flattening,
\* clean_references, the two citation strategies, the link conversion, the
\* structural reformatting, the call to action, the header; the table
\* flattener runs first, on the text format_response was called with.
C16_FlattenerFirst ==
    /\ \E n \in 0..9 :
         fdone = SubSeq(<<"flatten", "clean_references", "perplexity", "citations",
                          "links", "rewrite", "layout", "call_to_action", "header">>,
                        1, n)
    /\ fdone = <<>> => content = raw

\* The flattener has turned a table into bullets while the reference list
\* and its markers are as the model wrote them.
C16_Witness ==
    /\ fdone = <<"flatten">>
    /\ Contains(content, <<"-", " ", "A", ":", " ", "1", ";", " ", "B", ":", " ", "2", ";", " ",
                           "C", ":", " ", "3">>)
    /\ Contains(content, <<NL, NL, "S", "o", "u", "r", "c", "e", "s", ":", NL, "1", ".", " ", "T",
                           "i", "t", "l", "e", " ", "-", " ", "h", "t",
                           "t", "p", ":", "/", "/", "x", ".", "c", "o",
                           "m">>)
    /\ ~Contains(raw, <<"-", " ", "A", ":", " ", "1">>)

\* C18 as stated: for a text with an inline marker [1] and the trailing
\* block "Sources:" / "1. Title - http://x.com", the two citation
\* strategies followed by the link conversion yield a text that contains
\* "Title - http://x.com" and no "[1]".
C18_NormalizerResolves ==
    (/\ ftodo = <<>>
     /\ fdone = <<"perplexity", "citations", "links">>
     /\ Contains(raw, <<"[", "1", "]">>)
     /\ EndsWith(raw, <<NL, NL, "S", "o", "u", "r", "c", "e", "s", ":", NL, "1", ".", " ", "T",
                        "i", "t", "l", "e", " ", "-", " ", "h", "t", "t",
                        "p", ":", "/", "/", "x", ".", "c", "o", "m">>))
    => /\ Contains(content, <<"T", "i", "t", "l", "e", " ", "-", " ", "h", "t", "t", "p", ":", "/",
                              "/", "x", ".", "c", "o", "m">>)
       /\ ~Contains(content, <<"[", "1", "]">>)

\* The lines of s that are not empty.
NonEmptyLines(s) == SelectSeq(Split(s, NL), LAMBDA l : l # <<>>)

\* "- header1: value1; header2: value2" for each data row of the table t.
Bullets(t) ==
    [i \in 1..Len(t.rows) |->
        <<"-", " ">>
        \o Join([k \in 1..Len(t.header) |-> t.header[k] \o <<":", " ">> \o t.rows[i][k]],
                <<";", " ">>)]

\* A line the flattener takes for a table line: it starts with a pipe or
\* holds two pipes at least.
Recognised(line) == At(line, 1) = "|" \/ CountOf(line, "|") >= 2

ClosingSentence ==
    <<"N", "e", "x", "t", " ", "S", "t", "e", "p", ":", " ", "R", "e", "f",
      "l", "e", "c", "t", " ", "o", "n", " ", "t", "h", "e", " ", "a", "b",
      "o", "v", "e", " ", "q", "u", "e", "s", "t", "i", "o", "n", "s", " ",
      "a", "n", "d", " ", "s", "h", "a", "r", "e", " ", "y", "o", "u", "r",
      " ", "t", "h", "o", "u", "g", "h", "t", "s", " ", "o", "n", " ", "t",
      "h", "e", " ", "m", "o", "s", "t", " ", "c", "h", "a", "l", "l", "e",
      "n", "g", "i", "n", "g", " ", "o", "n", "e", ".">>

\* t holds "next step" or "action item", whatever the case of its letters.
NamesNextStep(t) ==
    Contains(Lower(t), <<"n", "e", "x", "t", " ", "s", "t", "e", "p">>) \/ Contains(Lower(t), <<"a", "c", "t", "i", "o", "n", " ", "i", "t", "e", "m">>)

\* C20 as stated: when the text format_response is called with holds
\* neither "next step" nor "action item" (case-insensitive), the output
\* ends with the closing sentence; when it holds "Next Step", the closing
\* sentence is not appended.
C20_ClosingByInput ==
    (ftodo = <<>> /\ fdone # <<>>) =>
        /\ ~NamesNextStep(raw) => EndsWith(content, ClosingSentence)
        /\ Contains(raw, <<"N", "e", "x", "t", " ", "S", "t", "e", "p">>) => ~EndsWith(content, ClosingSentence)

\* C20, amended: the closing sentence is appended exactly when the text the
\* earlier stages produced, not the text format_response was called with,
\* holds neither "next step" nor "action item" (case-insensitive).
C20_ClosingByReformattedText ==
    [][fdone' = Append(fdone, "call_to_action") =>
          content' = IF NamesNextStep(content) THEN content
                     ELSE content \o <<NL, NL>> \o ClosingSentence]_vars

\* The text the formatter was called with has "next" and "step" on two
\* lines; the stages joined them, and the output has no closing sentence.
C20_Witness ==
    /\ ftodo = <<>>
    /\ "call_to_action" \in {fdone[i] : i \in 1..Len(fdone)}
    /\ raw = <<"n", "e", "x", "t", NL, "s", "t", "e", "p">>
    /\ ~NamesNextStep(raw)
    /\ ~EndsWith(content, ClosingSentence)

----------------------------------------------------------------------------
\* Properties of the responses handle_message sends.

\* C17 as stated: every response handle_message hands to the transport is
\* one chunk, of the chunk limit at most, of the response escaped with
\* escape_md_v2 and split with split_into_chunks.
C17_SentChunksOfEscaped ==
    \A t \in Tasks :
        \A i \in 1..Len(sent[t]) :
            /\ Len(sent[t][i].text) <= ChunkLimit
            /\ \E k \in 1..Len(SplitIntoChunks(escape_md_v2(ai_response[t]), ChunkLimit)) :
                   SplitIntoChunks(escape_md_v2(ai_response[t]), ChunkLimit)[k]
                       = sent[t][i].text

----------------------------------------------------------------------------
\* Properties of the citation strategies.

\* The texts of the matches of \[([0-9,\s]+)\] in s, in order.
RECURSIVE GroupsFrom(_, _)
GroupsFrom(s, from) ==
    LET i == First(from, Len(s), LAMBDA k : GroupLen(s, k) > 0)
    IN  IF i = 0 THEN <<>>
        ELSE <<SubSeq(s, i, i + GroupLen(s, i) - 1)>> \o GroupsFrom(s, i + GroupLen(s, i))

Groups(s) == GroupsFrom(s, 1)

\* The texts of the matches of \[(\d+)\] in s, in order.
RECURSIVE MarkersFrom(_, _)
MarkersFrom(s, from) ==
    LET i == First(from, Len(s), LAMBDA k : MarkerLen(s, k) > 0)
    IN  IF i = 0 THEN <<>>
        ELSE <<SubSeq(s, i, i + MarkerLen(s, i) - 1)>> \o MarkersFrom(s, i + MarkerLen(s, i))

Markers(s) == MarkersFrom(s, 1)

\* The indices a group or a marker names, and the numbers of a mapping.
Indices(g) ==
    LET parts == Split(SubSeq(g, 2, Len(g) - 1), ",")
    IN  {Strip(parts[i]) : i \in 1..Len(parts)}

Numbers(entries) == {entries[i].num : i \in 1..Len(entries)}

\* The number of markdown links in s.
LinkCount(s) == Cardinality({i \in 1..Len(s) : LinkLen(s, i) > 0})

\* The number of indices the groups gs name that are in the set nums,
\* counted with repetition.
RECURSIVE ResolvedCount(_, _)
ResolvedCount(gs, nums) ==
    IF gs = <<>> THEN 0
    ELSE LET parts == Split(SubSeq(Head(gs), 2, Len(Head(gs)) - 1), ",")
         IN  Cardinality({i \in 1..Len(parts) : Strip(parts[i]) \in nums})
             + ResolvedCount(Tail(gs), nums)

\* Strategy 1 leaves every marker whose index has no reference entry as it
\* is, and no other marker.
UnresolvedMarkersKept ==
    fdone' = Append(fdone, "citations") =>
        Markers(content')
            = SelectSeq(Markers(content_without_refs(content)),
                        LAMBDA m : Indices(m) \cap Numbers(ReferencesOf(content)) = {})

\* C21 as stated: strategy 1 leaves an inline [n] whose index has no
\* reference entry as the literal text [n]; after strategy 2 has found a
\* sources section, no index that is absent from the sources mapping is
\* left in an inline group of the output.
C21_UnresolvedAlwaysOmitted ==
    [][/\ UnresolvedMarkersKept
       /\ (fdone' = Append(fdone, "perplexity") /\ SourcesStarts(content) # {}) =>
              \A i \in 1..Len(Groups(content')) :
                  Indices(Groups(content')[i]) \subseteq Numbers(SourcesOf(content))]_vars

\* C21, amended: strategy 1 leaves an inline [n] whose index has no
\* reference entry as the literal text [n].  Strategy 2, when it has found
\* a sources section, replaces an inline group of which at least one index
\* is in the sources mapping by the links of those indices alone, and
\* leaves a group of which no index is in the mapping as it is.
C21_UnresolvedGroupKept ==
    [][/\ UnresolvedMarkersKept
       /\ (fdone' = Append(fdone, "perplexity") /\ SourcesStarts(content) # {}) =>
              LET nums == Numbers(SourcesOf(content))
                  groups == Groups(content_without_sources(content))
              IN  /\ Groups(content')
                       = SelectSeq(groups, LAMBDA g : Indices(g) \cap nums = {})
                  /\ LinkCount(content')
                       = LinkCount(content_without_sources(content))
                         + ResolvedCount(groups, nums)]_vars

\* Strategy 2 has run on a text with the sources 1: it replaced the group
\* [1, 3] by one link and left the group [4].
C21_Witness ==
    /\ fdone = <<"perplexity">>
    /\ SourcesStarts(raw) # {}
    /\ Numbers(SourcesOf(raw)) = {<<"1">>}
    /\ Groups(raw) = <<<<"[", "1", ",", " ", "3", "]">>, <<"[", "4", "]">>>>
    /\ Groups(content) = <<<<"[", "4", "]">>>>
    /\ LinkCount(content) = 1

----------------------------------------------------------------------------
\* Properties of the numbering of questions.

\* The lines the loop of line 283 lays out: the lines of the text with the
\* headings promoted, each stripped, the empty ones left out.
LoopLines(c) ==
    SelectSeq(Map(PromoteHeadings(Split(Strip(c), NL), <<>>), Strip), LAMBDA l : l # <<>>)

\* The lines of s that end in a question mark.
QuestionLines(s) == SelectSeq(NonEmptyLines(s), LAMBDA l : EndsWith(l, <<"?">>))

\* The prefix of the k-th question.
QuestionPrefix(k) == IF k <= 7 THEN DigitString(k) \o <<".", " ">> ELSE <<"-", " ">>

\* What C22 as stated emits for the question lines among lines, k of them
\* having been counted.
RECURSIVE EveryQuestionCounted(_, _)
EveryQuestionCounted(lines, k) ==
    IF lines = <<>> THEN <<>>
    ELSE IF EndsWith(Head(lines), <<"?">>)
         THEN <<IF IsNumberedLine(Head(lines)) THEN Head(lines)
                ELSE QuestionPrefix(k + 1) \o Head(lines)>>
              \o EveryQuestionCounted(Tail(lines), k + 1)
         ELSE EveryQuestionCounted(Tail(lines), k)

\* The same, with the lines of more than 160 characters that do not start
\* with "- " neither counted nor prefixed (their sentences are emitted as
\* lines of their own), and with a dash after a numeric prefix removed.
RECURSIVE ShortQuestionsCounted(_, _)
ShortQuestionsCounted(lines, k) ==
    IF lines = <<>> THEN <<>>
    ELSE LET line == Head(lines)
             fixed == DropDoublePrefix(line)
         IN  IF Len(line) > 160 /\ ~StartsWith(line, <<"-", " ">>)
             THEN SelectSeq(Map(SentenceSplit(line), Strip),
                            LAMBDA p : EndsWith(p, <<"?">>))
                  \o ShortQuestionsCounted(Tail(lines), k)
             ELSE IF EndsWith(fixed, <<"?">>)
             THEN <<IF IsNumberedLine(fixed) THEN fixed
                    ELSE QuestionPrefix(k + 1) \o fixed>>
                  \o ShortQuestionsCounted(Tail(lines), k + 1)
             ELSE ShortQuestionsCounted(Tail(lines), k)

\* C22 as stated: every non-empty line ending in "?" is counted in document
\* order; the k-th such line is emitted with the prefix "k. " if k <= 7 and
\* with "- " if k > 7, unless it already starts with a numeric prefix, in
\* which case it is emitted unchanged.
C22_EveryQuestionNumbered ==
    [][fdone' = Append(fdone, "layout") =>
          QuestionLines(content') = EveryQuestionCounted(LoopLines(content), 0)]_vars

\* C22, amended: the non-empty lines ending in "?" that are at most 160
\* characters long or start with "- " are counted in document order; the
\* k-th of them is emitted with the prefix "k. " if k <= 7 and with "- " if
\* k > 7, unless it already starts with a numeric prefix, in which case it
\* is emitted without a dash that follows the prefix directly and otherwise
\* unchanged.  A longer line is neither counted nor prefixed: its sentences
\* are emitted as lines of their own.
C22_ShortQuestionsNumbered ==
    [][fdone' = Append(fdone, "layout") =>
          QuestionLines(content') = ShortQuestionsCounted(LoopLines(content), 0)]_vars

\* The layout has run on nine questions: the seventh is numbered, the
\* eighth and the ninth are bullets, the third kept its own number.
C22_Witness ==
    /\ fdone # <<>>
    /\ fdone[Len(fdone)] = "layout"
    /\ QuestionLines(content)
         = <<<<"1", ".", " ", "a", "?">>, <<"2", ".", " ", "b", "?">>, <<"3", ".", " ", "c", "?">>, <<"4", ".", " ", "d", "?">>, <<"5", ".", " ", "e", "?">>,
             <<"6", ".", " ", "f", "?">>, <<"7", ".", " ", "g", "?">>, <<"-", " ", "h", "?">>, <<"-", " ", "i", "?">>>>

\* The number of times the handler of task t has reached the step e.
Times(t, e) == CountOf(effects[t], e)

\* C23: when the first reply_text with the response (parse mode HTML)
\* raises, the response is sent once more, exactly once, with parse mode
\* None and without its tags; when the first reply_text succeeds, the
\* response is not sent a second time.
C23_PlainTextFallbackOnce ==
    \A t \in Tasks :
        /\ Times(t, "send:response") + Times(t, "fail:response") <= 1
        /\ Times(t, "send:plain") + Times(t, "fail:plain")
             = IF Times(t, "fail:response") = 1 /\ pc[t] # "await_send_plain" THEN 1 ELSE 0
        /\ sent[t] = IF Times(t, "send:response") = 1
                     THEN <<[text |-> ai_response[t], parse_mode |-> "HTML"]>>
                     ELSE IF Times(t, "send:plain") = 1
                     THEN <<[text |-> StripTags(ai_response[t]), parse_mode |-> "None"]>>
                     ELSE <<>>
        /\ \A i \in 1..Len(sent[t]) :
               sent[t][i].parse_mode = "None" =>
                   \A k \in 1..Len(sent[t][i].text) : TagLen(sent[t][i].text, k) = 0

\* The first reply_text raised on a response with tags, and the fallback
\* delivered it without them.
C23_Witness ==
    \E t \in Tasks :
        /\ Times(t, "fail:response") = 1
        /\ Times(t, "send:plain") = 1
        /\ \E k \in 1..Len(ai_response[t]) : TagLen(ai_response[t], k) > 0
        /\ Len(sent[t]) = 1
        /\ sent[t][1].parse_mode = "None"
        /\ sent[t][1].text # ai_response[t]

----------------------------------------------------------------------------
\* Properties of the export scripts.

\* The rows yielded so far, in order.
Yielded == Concat(pages)

\* C24 as stated: the pages hold every row of the table exactly once, in
\* ascending order of created_at, once the loop has ended on the first
\* empty page, whatever the table and the page size, also when rows share
\* their created_at.
C24_EveryRowOnce ==
    /\ \A i, j \in 1..Len(Yielded) :
           i < j => /\ Yielded[i].id # Yielded[j].id
                    /\ Yielded[i].created_at <= Yielded[j].created_at
    /\ fetch_state = "done" => {Yielded[i].id : i \in 1..Len(Yielded)} = 1..Len(table)

----------------------------------------------------------------------------
\* Properties of the conversation sent to the model.

\* The entries of the list sent to the model that carry the message k of
\* the user.
EntriesOfMessage(k) ==
    {i \in 1..Len(formatted_messages) :
        /\ formatted_messages[i].role = "user"
        /\ formatted_messages[i].content.says = k}

\* C28 as stated: the list sent to the model holds the current message of
\* the user exactly once: the history read after the user turn was saved,
\* plus the appended current message, never holds that message twice.
C28_CurrentMessageOnce ==
    hstate = "asked" => Cardinality(EntriesOfMessage(turn)) = 1

----------------------------------------------------------------------------
\* Properties of the except branch of handle_message.

\* The task has saved both turns, read the history, called the model and
\* sent the response with parse mode HTML: none of these steps failed.
EveryStepSucceeded(t) ==
    /\ Times(t, "save:user") = 1
    /\ Times(t, "read:history") >= 1
    /\ Times(t, "call:model") = 1
    /\ Times(t, "save:assistant") = 1
    /\ Times(t, "send:response") = 1

\* C29 as stated: a message for which saving both turns, reading the
\* history, the call of the model and sending the response all succeed never
\* gets the generic error reply and never has a message_error event logged.
C29_NoErrorReplyOnSuccess ==
    \A t \in Tasks :
        EveryStepSucceeded(t) =>
            /\ Times(t, "send:error") = 0
            /\ Times(t, "log:message_error") = 0

----------------------------------------------------------------------------
\* Properties of the persona.

\* The values of current_agent persisted for the user.
PersistedAgents == {r.current_agent : r \in user_sessions}

\* C30 as stated: after any sequence of /start, advisor buttons, /pm and /vc
\* in which every call of the store succeeded, the persisted current_agent
\* is the agent_type that handle_message and /reset read from
\* context.user_data ("pm" when unset).
C30_PersonaConsistent ==
    (handled # <<>> /\ ~db_errors) =>
        PersistedAgents = {AgentTypeOf(user_data)}

====
